---- MODULE Spec2Model ----
(***************************************************************************)
(* A model of the tool-orchestration engine of code-assistant:             *)
(*   - CodeAssistant.ask and the tool-calling loop                          *)
(*     (src/src/codeAssistant.ts),                                          *)
(*   - the tool executor CodeAssistant._executeTool with the CRM and Tasks  *)
(*     stores it reads and writes (src/src/support/crmService.ts,           *)
(*     TasksService),                                                       *)
(*   - the conversation history (src/src/rag/conversationManager.ts),       *)
(*   - the indexer ProjectIndexer with the embedding step of _saveIndex     *)
(*     (src/src/rag/embeddingUtils.ts),                                     *)
(*   - the retriever RAGPipeline: tokens, keyword scores, the keyword and   *)
(*     the hybrid search.                                                   *)
(*                                                                          *)
(* Text is modelled by what the code does with it: a JavaScript value that  *)
(* a tool reads from its input is a string, where "" stands for a missing   *)
(* (or otherwise falsy) field and NonString for a truthy value that is not  *)
(* a string; an answer is a sequence of text pieces, so that concatenation, *)
(* trim() and containment are computed, not assumed.                        *)
(***************************************************************************)
EXTENDS Integers, Sequences, FiniteSets, TLC

(***************************************************************************)
(* Bounds of the model (none of them is a constant of the program).         *)
(***************************************************************************)
\* Date.now() takes the values 0..MaxClock.
MaxClock == 1
\* The CRM store holds at most MaxTickets tickets, a ticket at most MaxMsgs
\* messages, the Tasks store at most MaxTasks tasks.
MaxTickets == 2
MaxMsgs == 2
MaxTasks == 2
\* The index holds 0..MaxChunks chunks.
MaxChunks == 3
MaxConvCalls == 4
MaxWords == 4
MaxSize == 3
MaxSteps == 5

(***************************************************************************)
(* JavaScript values read from a tool input.                                *)
(***************************************************************************)
Absent == ""
NonString == "#num"

Truthy(v) == v # Absent

Fields ==
  {"user_id", "ticket_id", "task_id", "title", "description", "category",
   "priority", "status", "text", "sender", "query", "assignee", "depends_on"}

EmptyObj == [f \in Fields |-> Absent]

\* `input` of _executeTool: undefined, or the object JSON.parse produced.
Undefined == [def |-> FALSE, obj |-> EmptyObj]

Obj(o) == [def |-> TRUE, obj |-> o]

\* const { f } = input || {};
Fld(input, f) == IF input.def THEN input.obj[f] ELSE Absent

(***************************************************************************)
(* Strings as character sequences, for toLowerCase() and includes().        *)
(***************************************************************************)
Chars(s) ==
  CASE s = "" -> <<>>
    [] s = "Bug" -> <<"B", "u", "g">>
    [] s = "bug" -> <<"b", "u", "g">>
    [] s = "UG" -> <<"U", "G">>
    [] s = "x" -> <<"x">>
    [] OTHER -> <<s>>

LowerChar(c) ==
  CASE c = "B" -> "b"
    [] c = "U" -> "u"
    [] c = "G" -> "g"
    [] OTHER -> c

ToLowerCase(cs) == [i \in 1..Len(cs) |-> LowerChar(cs[i])]

\* a.includes(b)
Includes(a, b) ==
  \E i \in 0..(Len(a) - Len(b)) : SubSeq(a, i + 1, i + Len(b)) = b

(***************************************************************************)
(* The CRM and Tasks stores (CRMService.data, TasksService.data).           *)
(***************************************************************************)
SeedTicket ==
  [id |-> "ticket_a", user_id |-> "user_1", title |-> "Bug",
   description |-> "x", category |-> "other", priority |-> "medium",
   status |-> "open", messages |-> <<[sender |-> "user", text |-> "x"]>>]

SeedTask ==
  [id |-> "task_a", title |-> "Bug", description |-> "x",
   priority |-> "medium", status |-> "open", assignee |-> "dev_1",
   depends_on |-> "[]"]

InitCrm ==
  [users |-> <<[id |-> "user_1", name |-> "Ann"]>>, tickets |-> <<SeedTicket>>]

InitTasks == [tasks |-> <<SeedTask>>]

\* Array.prototype.find on the id: the index of the first match, 0 if none.
FindIdx(seq, id) ==
  IF \E i \in 1..Len(seq) : seq[i].id = id
  THEN CHOOSE i \in 1..Len(seq) :
         seq[i].id = id /\ \A j \in 1..(i - 1) : seq[j].id # id
  ELSE 0

getUserTickets(crm, userId) ==
  LET mine(t) == t.user_id = userId IN SelectSeq(crm.tickets, mine)

createTicket(crm, ticket) == [crm EXCEPT !.tickets = Append(@, ticket)]

\* Object.assign(ticket, updates) on the first ticket with the id.
updateTicket(crm, ticketId, status, priority) ==
  LET i == FindIdx(crm.tickets, ticketId) IN
  IF i = 0 THEN crm
  ELSE [crm EXCEPT !.tickets[i].status = IF Truthy(status) THEN status ELSE @,
                   !.tickets[i].priority =
                     IF Truthy(priority) THEN priority ELSE @]

addTicketMessage(crm, ticketId, message) ==
  LET i == FindIdx(crm.tickets, ticketId) IN
  IF i = 0 THEN crm
  ELSE [crm EXCEPT !.tickets[i].messages = Append(@, message)]

getTasks(tasks, priority, status, assignee) ==
  LET keep(t) == /\ (Truthy(priority) => t.priority = priority)
                 /\ (Truthy(status) => t.status = status)
                 /\ (Truthy(assignee) => t.assignee = assignee)
  IN SelectSeq(tasks.tasks, keep)

createTask(tasks, task) == [tasks EXCEPT !.tasks = Append(@, task)]

updateTask(tasks, taskId, status, priority, assignee) ==
  LET i == FindIdx(tasks.tasks, taskId) IN
  IF i = 0 THEN tasks
  ELSE [tasks EXCEPT
          !.tasks[i].status = IF Truthy(status) THEN status ELSE @,
          !.tasks[i].priority = IF Truthy(priority) THEN priority ELSE @,
          !.tasks[i].assignee = IF Truthy(assignee) THEN assignee ELSE @]

(***************************************************************************)
(* Tool results: the text _executeTool returns, as its leading words        *)
(* (kind), the rest of the message and the records it serialises.           *)
(***************************************************************************)
Res(kind, msg, data) == [kind |-> kind, msg |-> msg, data |-> data]

ErrorRes(msg) == Res("Error: ", msg, <<>>)

NoResult == Res("none", "", <<>>)

\* What the body of the try block does: it returns a text and the stores,
\* or it throws.
Ret(result, crm, tasks) ==
  [threw |-> FALSE, result |-> result, crm |-> crm, tasks |-> tasks]

Throw(crm, tasks) ==
  [threw |-> TRUE, result |-> NoResult, crm |-> crm, tasks |-> tasks]

(***************************************************************************)
(* CodeAssistant._executeTool, one operator per case of its switch.         *)
(* git is what GitHelper reports (it catches its own errors); clock is      *)
(* Date.now(). The created_at/updated_at/timestamp fields are left out of   *)
(* the records: no operation of the program reads them.                     *)
(***************************************************************************)
GitOutcomes ==
  {[branch |-> "main", status |-> " M a.ts"],
   [branch |-> "unknown", status |-> ""]}

ToolGitBranch(git, crm, tasks) ==
  Ret(Res("Current git branch: ", git.branch, <<>>), crm, tasks)

ToolGitStatus(git, crm, tasks) ==
  IF git.status # ""
  THEN Ret(Res("Git Status:", git.status, <<>>), crm, tasks)
  ELSE Ret(Res("Git repository is clean (no changes)", "", <<>>), crm, tasks)

\* A variant of get_user that drops the tickets.
ToolGetUserDropsTickets(input, crm, tasks) ==
  Ret(Res("json", "success", <<>>), [crm EXCEPT !.tickets = <<>>], tasks)

ToolGetUser(input, crm, tasks) ==
  LET user_id == Fld(input, "user_id")
      i == FindIdx(crm.users, user_id)
  IN IF ~Truthy(user_id)
     THEN Ret(ErrorRes("user_id is required for get_user"), crm, tasks)
     ELSE IF i = 0
     THEN Ret(ErrorRes("User " \o user_id \o " not found"), crm, tasks)
     ELSE Ret(Res("json", "success", <<crm.users[i]>>), crm, tasks)

ToolListTickets(input, crm, tasks) ==
  LET user_id == Fld(input, "user_id")
      status == Fld(input, "status")
      tickets == getUserTickets(crm, user_id)
      hasStatus(t) == t.status = status
      filtered == IF Truthy(status) THEN SelectSeq(tickets, hasStatus)
                  ELSE tickets
  IN IF ~Truthy(user_id)
     THEN Ret(ErrorRes("user_id is required for list_tickets"), crm, tasks)
     ELSE Ret(Res("json", "success", filtered), crm, tasks)

\* The ticket create_ticket builds.
NewTicket(input, clock) ==
  LET category == Fld(input, "category")
      priority == Fld(input, "priority")
  IN [id |-> "ticket_" \o ToString(clock), user_id |-> Fld(input, "user_id"),
      title |-> Fld(input, "title"),
      description |-> Fld(input, "description"),
      category |-> IF Truthy(category) THEN category ELSE "other",
      priority |-> IF Truthy(priority) THEN priority ELSE "medium",
      status |-> "open",
      messages |-> <<[sender |-> "user", text |-> Fld(input, "description")]>>]

\* create_ticket without the test that the user exists.
ToolCreateTicketAnyUser(input, crm, tasks, clock) ==
  IF \/ ~Truthy(Fld(input, "user_id")) \/ ~Truthy(Fld(input, "title"))
     \/ ~Truthy(Fld(input, "description"))
  THEN Ret(ErrorRes("user_id, title, and description are required for create_ticket"),
           crm, tasks)
  ELSE Ret(Res("json", "Ticket created successfully",
               <<[ticket_id |-> NewTicket(input, clock).id]>>),
           createTicket(crm, NewTicket(input, clock)), tasks)

ToolCreateTicket(input, crm, tasks, clock) ==
  LET user_id == Fld(input, "user_id")
      ticket == NewTicket(input, clock)
  IN IF \/ ~Truthy(user_id) \/ ~Truthy(Fld(input, "title"))
        \/ ~Truthy(Fld(input, "description"))
     THEN Ret(ErrorRes("user_id, title, and description are required for create_ticket"),
              crm, tasks)
     ELSE IF FindIdx(crm.users, user_id) = 0
     THEN Ret(ErrorRes("User " \o user_id \o " not found"), crm, tasks)
     ELSE Ret(Res("json", "Ticket created successfully",
                  <<[ticket_id |-> ticket.id]>>),
              createTicket(crm, ticket), tasks)

ToolUpdateTicket(input, crm, tasks) ==
  LET ticket_id == Fld(input, "ticket_id")
      status == Fld(input, "status")
      priority == Fld(input, "priority")
      crm2 == updateTicket(crm, ticket_id, status, priority)
  IN IF ~Truthy(ticket_id)
     THEN Ret(ErrorRes("ticket_id is required for update_ticket"), crm, tasks)
     ELSE IF FindIdx(crm.tickets, ticket_id) = 0
     THEN Ret(ErrorRes("Ticket " \o ticket_id \o " not found"), crm, tasks)
     ELSE Ret(Res("json", "Ticket " \o ticket_id \o " updated successfully",
                  <<crm2.tickets[FindIdx(crm2.tickets, ticket_id)]>>),
              crm2, tasks)

ToolAddMessage(input, crm, tasks) ==
  LET ticket_id == Fld(input, "ticket_id")
      text == Fld(input, "text")
      sender == Fld(input, "sender")
      message == [sender |-> IF Truthy(sender) THEN sender ELSE "support_agent",
                  text |-> text]
  IN IF ~Truthy(ticket_id) \/ ~Truthy(text)
     THEN Ret(ErrorRes("ticket_id and text are required for add_message"),
              crm, tasks)
     ELSE IF FindIdx(crm.tickets, ticket_id) = 0
     THEN Ret(ErrorRes("Ticket " \o ticket_id \o " not found"), crm, tasks)
     ELSE Ret(Res("json", "Message added to ticket " \o ticket_id, <<>>),
              addTicketMessage(crm, ticket_id, message), tasks)

\* query.toLowerCase() throws a TypeError when query is no string, and so
\* do t.title.toLowerCase() and t.description.toLowerCase() for a ticket
\* the filter reaches (the description only when the title does not match).
ToolSearchTickets(input, crm, tasks) ==
  LET query == Fld(input, "query")
      user_id == Fld(input, "user_id")
      results == IF Truthy(user_id) THEN getUserTickets(crm, user_id)
                 ELSE crm.tickets
      q == ToLowerCase(Chars(query))
      inTitle(t) == Includes(ToLowerCase(Chars(t.title)), q)
      inDescription(t) == Includes(ToLowerCase(Chars(t.description)), q)
      raises(t) == \/ t.title = NonString
                   \/ ~inTitle(t) /\ t.description = NonString
      matches(t) == inTitle(t) \/ inDescription(t)
  IN IF ~Truthy(query) /\ ~Truthy(user_id)
     THEN Ret(ErrorRes("Either query or user_id is required for search_tickets"),
              crm, tasks)
     ELSE IF ~Truthy(query)
     THEN Ret(Res("json", "success", results), crm, tasks)
     ELSE IF query = NonString
     THEN Throw(crm, tasks)
     ELSE IF \E i \in 1..Len(results) : raises(results[i])
     THEN Throw(crm, tasks)
     ELSE Ret(Res("json", "success", SelectSeq(results, matches)), crm, tasks)

ToolListTasks(input, crm, tasks) ==
  Ret(Res("json", "success",
          getTasks(tasks, Fld(input, "priority"), Fld(input, "status"),
                   Fld(input, "assignee"))),
      crm, tasks)

ToolGetTask(input, crm, tasks) ==
  LET task_id == Fld(input, "task_id")
      i == FindIdx(tasks.tasks, task_id)
  IN IF ~Truthy(task_id)
     THEN Ret(ErrorRes("task_id is required for get_task"), crm, tasks)
     ELSE IF i = 0
     THEN Ret(ErrorRes("Task " \o task_id \o " not found"), crm, tasks)
     ELSE Ret(Res("json", "success", <<tasks.tasks[i]>>), crm, tasks)

ToolCreateTask(input, crm, tasks, clock) ==
  LET title == Fld(input, "title")
      description == Fld(input, "description")
      priority == Fld(input, "priority")
      assignee == Fld(input, "assignee")
      depends_on == Fld(input, "depends_on")
      taskId == "task_" \o ToString(clock)
      newTask ==
        [id |-> taskId, title |-> title, description |-> description,
         priority |-> IF Truthy(priority) THEN priority ELSE "medium",
         status |-> "open", assignee |-> assignee,
         depends_on |-> IF Truthy(depends_on) THEN depends_on ELSE "[]"]
  IN IF ~Truthy(title) \/ ~Truthy(description) \/ ~Truthy(assignee)
     THEN Ret(ErrorRes("title, description, and assignee are required for create_task"),
              crm, tasks)
     ELSE Ret(Res("json", "Task created successfully", <<newTask>>),
              crm, createTask(tasks, newTask))

ToolUpdateTask(input, crm, tasks) ==
  LET task_id == Fld(input, "task_id")
      tasks2 == updateTask(tasks, task_id, Fld(input, "status"),
                           Fld(input, "priority"), Fld(input, "assignee"))
  IN IF ~Truthy(task_id)
     THEN Ret(ErrorRes("task_id is required for update_task"), crm, tasks)
     ELSE IF FindIdx(tasks.tasks, task_id) = 0
     THEN Ret(ErrorRes("Task " \o task_id \o " not found"), crm, tasks)
     ELSE Ret(Res("json", "Task " \o task_id \o " updated successfully",
                  <<tasks2.tasks[FindIdx(tasks2.tasks, task_id)]>>),
              crm, tasks2)

ToolNames ==
  {"git_branch", "git_status", "get_user", "list_tickets", "create_ticket",
   "update_ticket", "add_message", "search_tickets", "list_tasks", "get_task",
   "create_task", "update_task"}

\* The switch inside the try block.
ToolSwitch(toolName, input, crm, tasks, clock, git) ==
  CASE toolName = "git_branch" -> ToolGitBranch(git, crm, tasks)
    [] toolName = "git_status" -> ToolGitStatus(git, crm, tasks)
    [] toolName = "get_user" -> ToolGetUser(input, crm, tasks)
    [] toolName = "list_tickets" -> ToolListTickets(input, crm, tasks)
    [] toolName = "create_ticket" -> ToolCreateTicket(input, crm, tasks, clock)
    [] toolName = "update_ticket" -> ToolUpdateTicket(input, crm, tasks)
    [] toolName = "add_message" -> ToolAddMessage(input, crm, tasks)
    [] toolName = "search_tickets" -> ToolSearchTickets(input, crm, tasks)
    [] toolName = "list_tasks" -> ToolListTasks(input, crm, tasks)
    [] toolName = "get_task" -> ToolGetTask(input, crm, tasks)
    [] toolName = "create_task" -> ToolCreateTask(input, crm, tasks, clock)
    [] toolName = "update_task" -> ToolUpdateTask(input, crm, tasks)
    [] OTHER -> Ret(Res("Unknown tool: ", toolName, <<>>), crm, tasks)

\* The catch block left out: an exception of the switch leaves _executeTool.
ExecuteToolNoCatch(toolName, input, crm, tasks, clock, git) ==
  ToolSwitch(toolName, input, crm, tasks, clock, git)

\* _executeTool: try { switch } catch { return `Error executing tool: ...` }.
\* (this.crm and this.tasks are set by initialize(), so the "not
\* initialized" returns cannot happen once ask is callable.)
ExecuteTool(toolName, input, crm, tasks, clock, git) ==
  LET r == ToolSwitch(toolName, input, crm, tasks, clock, git)
  IN IF r.threw
     THEN Ret(Res("Error executing tool: ", "TypeError", <<>>), crm, tasks)
     ELSE r

(***************************************************************************)
(* Answer text: a sequence of text pieces; " " and "\n\n" are whitespace.   *)
(***************************************************************************)
IsSpace(piece) == piece \in {" ", "\n\n"}

RECURSIVE TrimStart(_)
TrimStart(t) ==
  IF t # <<>> /\ IsSpace(Head(t)) THEN TrimStart(Tail(t)) ELSE t

RECURSIVE TrimEnd(_)
TrimEnd(t) ==
  IF t # <<>> /\ IsSpace(t[Len(t)]) THEN TrimEnd(SubSeq(t, 1, Len(t) - 1))
  ELSE t

\* String.prototype.trim
Trim(t) == TrimEnd(TrimStart(t))

(***************************************************************************)
(* The index and the retriever, as far as ask uses them.                    *)
(***************************************************************************)
maxResults == 5

ChunkContent(i) ==
  IF i % 2 = 1 THEN <<"the", "login", "auth", "db">>
  ELSE <<"function", "auth", "token">>

Chunk(i) ==
  [id |-> "chunk_" \o ToString(i), content |-> ChunkContent(i),
   source |-> "src/f" \o ToString(i) \o ".ts"]

\* RAGPipeline.search as ask sees it: one result per chunk, best first, cut
\* to maxResults. The order is that of chunks whose scores tie (the sort is
\* stable); the scores themselves are not read by ask.
search(chs, limit) ==
  LET n == IF Len(chs) < limit THEN Len(chs) ELSE limit
  IN [i \in 1..n |->
        [content |-> chs[i].content, source |-> chs[i].source,
         metadata |-> [source |-> chs[i].source]]]

stopWords == {"the", "from", "function", "class", "return"}

WordLength(w) ==
  CASE w = "db" -> 2
    [] w = "the" -> 3
    [] w = "auth" -> 4
    [] w \in {"login", "token"} -> 5
    [] OTHER -> 8

\* Append the words of ws that are not yet in acc (a Set keeps insertion
\* order and drops repeats).
RECURSIVE AddAll(_, _)
AddAll(acc, ws) ==
  IF ws = <<>> THEN acc
  ELSE AddAll(IF \E i \in 1..Len(acc) : acc[i] = Head(ws) THEN acc
              ELSE Append(acc, Head(ws)),
              Tail(ws))

FirstN(s, n) == SubSeq(s, 1, IF Len(s) < n THEN Len(s) ELSE n)

RECURSIVE KeywordsFrom(_, _)
KeywordsFrom(acc, sources) ==
  IF sources = <<>> THEN acc
  ELSE LET long(w) == WordLength(w) > 3 /\ w \notin stopWords
           words == FirstN(SelectSeq(Head(sources).content, long), 5)
       IN KeywordsFrom(AddAll(acc, words), Tail(sources))

_extractKeywords(sources) == FirstN(KeywordsFrom(<<>>, sources), 5)

(***************************************************************************)
(* The retriever (RAGPipeline): tokens, scores and the two searches.        *)
(* A text is the sequence of the words /\b\w+\b/g matches in it. Scores     *)
(* are exact fractions <<numerator, denominator>> in lowest terms, so that  *)
(* two scores are equal exactly when the two pairs are.                     *)
(***************************************************************************)
RECURSIVE GCD(_, _)
GCD(a, b) == IF b = 0 THEN a ELSE GCD(b, a % b)

Frac(n, d) == LET g == GCD(n, d) IN <<n \div g, d \div g>>

FracAdd(a, b) == Frac(a[1] * b[2] + b[1] * a[2], a[2] * b[2])

FracLess(a, b) == a[1] * b[2] < b[1] * a[2]

\* Math.min, Math.max
FracMin(a, b) == IF FracLess(b, a) THEN b ELSE a

FracMax(a, b) == IF FracLess(a, b) THEN b ELSE a

Letters(w) ==
  CASE w = "index" -> <<"i", "n", "d", "e", "x">>
    [] w = "indexes" -> <<"i", "n", "d", "e", "x", "e", "s">>
    [] w = "indexing" -> <<"i", "n", "d", "e", "x", "i", "n", "g">>
    [] w = "auth" -> <<"a", "u", "t", "h">>
    [] w = "author" -> <<"a", "u", "t", "h", "o", "r">>
    [] w = "login" -> <<"l", "o", "g", "i", "n">>
    [] w = "token" -> <<"t", "o", "k", "e", "n">>
    [] w = "lorem" -> <<"l", "o", "r", "e", "m">>
    [] w = "zebra" -> <<"z", "e", "b", "r", "a">>
    [] w = "function" -> <<"f", "u", "n", "c", "t", "i", "o", "n">>
    [] w = "the" -> <<"t", "h", "e">>
    [] w = "db" -> <<"d", "b">>
    [] OTHER -> <<w>>

\* text.toLowerCase(), word by word.
LowerWord(w) ==
  CASE w = "Index" -> "index"
    [] w = "Auth" -> "auth"
    [] OTHER -> w

\* The stop words of _tokenize that the texts of the model use.
tokenizeStopWords == {"the", "from", "function", "class", "return"}

\* _tokenize: lower case, no stop words, no token of one or two characters.
\* (The two camelCase replacements follow toLowerCase() and find no upper
\* case letter: they change nothing.)
_tokenize(text) ==
  LET tokens == [k \in 1..Len(text) |-> LowerWord(text[k])]
      kept(token) == token \notin tokenizeStopWords /\ Len(Letters(token)) > 2
  IN SelectSeq(tokens, kept)

\* The number of leading characters two words share.
CommonPrefix(a, b) ==
  LET la == Letters(a)
      lb == Letters(b)
      minLength == IF Len(la) < Len(lb) THEN Len(la) ELSE Len(lb)
  IN Cardinality({i \in 1..minLength : \A j \in 1..i : la[j] = lb[j]})

\* What one query word adds to score and matchedWords in the loop of
\* _calculateSimilarity: <<points, matched>>. chunkFreq is read in the
\* order its keys were inserted (keys), with the number of occurrences of
\* the key in chunkWords.
WordScore(qWord, keys, chunkWords) ==
  LET frequency(w) ==
        Cardinality({k \in 1..Len(chunkWords) : chunkWords[k] = w})
      freqWeight(w) == IF frequency(w) < 5 THEN frequency(w) ELSE 5
      stem(cWord) ==
        /\ Len(Letters(qWord)) >= 4 /\ Len(Letters(cWord)) >= 4
        /\ CommonPrefix(qWord, cWord) >= 4
      hits == SelectSeq(keys, stem)
  IN IF \E k \in 1..Len(keys) : keys[k] = qWord
     THEN <<Frac(3 * freqWeight(qWord), 5), 1>>
     ELSE IF hits # <<>>
     THEN <<Frac(CommonPrefix(qWord, hits[1]) * 3 * freqWeight(hits[1]),
                 Len(Letters(qWord)) * 2 * 5), 1>>
     ELSE <<Frac(0, 1), 0>>

\* _calculateSimilarity(queryWords, chunkWords)
_calculateSimilarity(queryWords, chunkWords) ==
  LET first == {k \in 1..Len(chunkWords) :
                  \A j \in 1..(k - 1) : chunkWords[j] # chunkWords[k]}
      keys == [p \in 1..Cardinality(first) |->
                 chunkWords[CHOOSE k \in first :
                              Cardinality({j \in first : j < k}) = p - 1]]
      n == Len(queryWords)
      add(total, one) == <<FracAdd(total[1], one[1]), total[2] + one[2]>>
      RECURSIVE Total(_, _, _)
      Total(chunkKeys, k, total) ==
        IF k > n THEN total
        ELSE Total(chunkKeys, k + 1,
                   add(total, WordScore(queryWords[k], chunkKeys, chunkWords)))
      baseScore(score) ==
        FracMin(Frac(score[1], score[2] * 2 * n), Frac(1, 1))
      normalised(score, matchedWords) ==
        IF matchedWords > 0
        THEN FracMax(baseScore(score), Frac(matchedWords * 7, n * 10))
        ELSE Frac(0, 1)
      return(total) == normalised(total[1], total[2])
  IN IF n = 0 \/ Len(chunkWords) = 0 THEN Frac(0, 1)
     ELSE return(Total(keys, 1, <<Frac(0, 1), 0>>))

\* The loop of _keywordSearch and of _hybridRRFSearch over this.chunks: the
\* score of a chunk, or the floor by its length when the score is 0.
KeywordScore(queryWords, chunk) ==
  LET floored(chunkWords, score) ==
        IF score = Frac(0, 1)
        THEN FracMin(Frac(Len(chunkWords), 1000), Frac(1, 10))
        ELSE score
      scored(chunkWords) ==
        floored(chunkWords, _calculateSimilarity(queryWords, chunkWords))
  IN scored(_tokenize(chunk.content))

KeywordScores(chs, query) ==
  LET scores(queryWords) ==
        [k \in 1..Len(chs) |->
           [chunk |-> chs[k], score |-> KeywordScore(queryWords, chs[k])]]
  IN scores(_tokenize(query))

\* scores.sort((a, b) => b.score - a.score): descending and stable. The
\* entry at index i goes behind the entries with a higher score and the
\* earlier entries with the same score.
SortByScore(scores) ==
  LET n == Len(scores)
      place(i) ==
        1 + Cardinality({k \in 1..n :
                           \/ FracLess(scores[i].score, scores[k].score)
                           \/ k < i /\ scores[k].score = scores[i].score})
  IN [p \in 1..n |-> scores[CHOOSE i \in 1..n : place(i) = p]]

\* The SearchResult of a chunk.
SearchResult(chunk, similarity) ==
  [content |-> chunk.content, source |-> chunk.source,
   similarity |-> similarity, metadata |-> [source |-> chunk.source]]

_keywordSearch(chs, query, limit) ==
  LET results(top) ==
        [k \in 1..Len(top) |-> SearchResult(top[k].chunk, top[k].score)]
  IN results(FirstN(SortByScore(KeywordScores(chs, query)), limit))

\* const keywordResults = keywordScores.slice(0, maxResults * 2)
KeywordResults(chs, query, limit) ==
  FirstN(SortByScore(KeywordScores(chs, query)), limit * 2)

\* semanticResults = keywordResults: the embeddings of the chunks are not
\* read.
SemanticReversed(keywordResults) ==
  [k \in 1..Len(keywordResults) |->
     keywordResults[Len(keywordResults) + 1 - k]]

SemanticResults(keywordResults) == keywordResults

\* What the results of one list add to rrfScores[id]: k = 60, and the
\* result at rank r (from 0) adds 1 / (k + r + 1).
RECURSIVE RrfSum(_, _, _)
RrfSum(id, results, j) ==
  IF j = 0 THEN Frac(0, 1)
  ELSE FracAdd(RrfSum(id, results, j - 1),
               IF results[j].chunk.id = id THEN Frac(1, 60 + (j - 1) + 1)
               ELSE Frac(0, 1))

\* The entries of rrfScores, in the order of insertion, each with the chunk
\* chunkMap holds for the id (the last one set), sorted by score.
FusedResults(keywordResults, semanticResults) ==
  LET both == keywordResults \o semanticResults
      ids == AddAll(<<>>, [j \in 1..Len(both) |-> both[j].chunk.id])
      lastOf(id) ==
        both[CHOOSE j \in 1..Len(both) :
               /\ both[j].chunk.id = id
               /\ \A i \in (j + 1)..Len(both) : both[i].chunk.id # id].chunk
  IN SortByScore(
       [j \in 1..Len(ids) |->
          [chunk |-> lastOf(ids[j]),
           score |->
             FracAdd(RrfSum(ids[j], keywordResults, Len(keywordResults)),
                     RrfSum(ids[j], semanticResults,
                            Len(semanticResults)))]])

\* The SearchResults of the fused entries: similarity = score / (k + 2).
HybridResults(finalResults) ==
  [k \in 1..Len(finalResults) |->
     SearchResult(finalResults[k].chunk,
                  Frac(finalResults[k].score[1],
                       finalResults[k].score[2] * (60 + 2)))]

\* The hybrid search without the cut to maxResults.
HybridNoCut(chs, query, limit) ==
  LET fused(keywordResults) ==
        FusedResults(keywordResults, SemanticResults(keywordResults))
  IN HybridResults(fused(KeywordResults(chs, query, limit)))

_hybridRRFSearch(chs, query, limit) ==
  LET fused(keywordResults) ==
        FusedResults(keywordResults, SemanticResults(keywordResults))
  IN HybridResults(FirstN(fused(KeywordResults(chs, query, limit)), limit))

\* The fallback answer, built without the LLM.
_generateAnswer(question, sources) ==
  IF Len(sources) = 0
  THEN <<"I could not find relevant information in the codebase for: ",
         question>>
  ELSE <<"Based on the codebase, ">>
       \o (IF _extractKeywords(sources) # <<>>
           THEN <<"I found information about: ">> \o _extractKeywords(sources)
                \o <<". ">>
           ELSE <<>>)
       \o <<"The most relevant files are [1] ", sources[1].metadata.source>>
       \o (IF Len(sources) > 1
           THEN <<" and [2] ", sources[2].metadata.source>> ELSE <<>>)
       \o <<".">>

\* A variant of _calculateConfidence without the step at 3 sources.
ConfidenceTwoLevels(sources) == IF Len(sources) = 0 THEN 0 ELSE 7

\* In tenths: 0, 0.7, 0.9 (0.5 is unreachable).
_calculateConfidence(sources) ==
  IF Len(sources) = 0 THEN 0
  ELSE IF Len(sources) >= 3 THEN 9
  ELSE IF Len(sources) >= 1 THEN 7
  ELSE 5

(***************************************************************************)
(* Questions, with what the regular expressions of _classifyQuestion and    *)
(* _isAnalyticalQuestion answer for them ("llm": no pattern matches and the *)
(* LLM is asked).                                                           *)
(***************************************************************************)
Questions ==
  {"List all tickets for user user_1", "How does authentication work?"}

\* _classifyQuestion up to its last line.
FastCategory(q) ==
  CASE q = "List all tickets for user user_1" -> "crm"
    [] q = "git status" -> "git"
    [] q = "list tasks" -> "tasks"
    [] OTHER -> "llm"

\* _isAnalyticalQuestion up to its last line.
FastAnalytical(q) ==
  CASE q = "List all tickets for user user_1" -> "no"
    [] q = "list tasks" -> "no"
    [] q = "What should we do first from high priority tasks?" -> "yes"
    [] OTHER -> "llm"

\* A reply of the LLM to a classification prompt: it failed, or it has a
\* text, given by which of the words the code looks for it includes.
ClassifyReplies ==
  {[failed |-> TRUE, words |-> {}],
   [failed |-> FALSE, words |-> {"git", "crm"}],
   [failed |-> FALSE, words |-> {"rag"}],
   [failed |-> FALSE, words |-> {}]}

AnalyticalReplies ==
  {[failed |-> TRUE, words |-> {}],
   [failed |-> FALSE, words |-> {"analytical"}],
   [failed |-> FALSE, words |-> {"simple"}]}

\* What a step of ask hands on: a value, or the exception it let through.
Val(v) == [threw |-> FALSE, value |-> v]

Exc == [threw |-> TRUE, value |-> "error"]

\* The catch block left out.
LlmClassifyNoCatch(reply) ==
  IF reply.failed THEN Exc
  ELSE IF "git" \in reply.words THEN Val("git")
  ELSE IF "crm" \in reply.words THEN Val("crm")
  ELSE IF "task" \in reply.words THEN Val("tasks")
  ELSE Val("rag")

_llmClassify(reply) ==
  IF reply.failed THEN Val("rag")
  ELSE IF "git" \in reply.words THEN Val("git")
  ELSE IF "crm" \in reply.words THEN Val("crm")
  ELSE IF "task" \in reply.words THEN Val("tasks")
  ELSE IF "rag" \in reply.words THEN Val("rag")
  ELSE Val("rag")

_llmIsAnalytical(reply) ==
  IF reply.failed THEN Val(FALSE) ELSE Val("analytical" \in reply.words)

(***************************************************************************)
(* The tool-calling loop: replies of the LLM and the pieces of one          *)
(* iteration of _generateAnswerWithTools.                                   *)
(***************************************************************************)
maxIterations == 5

\* The <input> body of a directive: absent (no <input> element), empty,
\* not valid JSON, or the JSON text of an object.
InputStr(kind, o) == [kind |-> kind, obj |-> o]

NoInput == InputStr("absent", EmptyObj)

\* The inner try/catch left out: JSON.parse throws on a body that is not JSON.
ParseInputNoCatch(inputStr) ==
  IF inputStr.kind = "json" THEN [threw |-> FALSE, value |-> Obj(inputStr.obj)]
  ELSE IF inputStr.kind = "invalid" THEN [threw |-> TRUE, value |-> Undefined]
  ELSE [threw |-> FALSE, value |-> Undefined]

\* let input = undefined; if (inputStr) { try { input = JSON.parse(inputStr) }
\* catch (e) {} }
\* (the result, or the exception the step lets through: none)
ParseInput(inputStr) ==
  IF inputStr.kind = "json" THEN [threw |-> FALSE, value |-> Obj(inputStr.obj)]
  ELSE [threw |-> FALSE, value |-> Undefined]

\* A reply to llm.invoke(fullPrompt): it failed, or it is a text. tool is
\* the name in the first <tool> directive ("" when the text has none), text
\* is what precedes the directive (the whole text when there is none),
\* input the directive's <input> body.
Reply(text, tool, inputStr) ==
  [failed |-> FALSE, text |-> text, tool |-> tool, input |-> inputStr]

FailedReply == [failed |-> TRUE, text |-> <<>>, tool |-> "", input |-> NoInput]

NoReply == [failed |-> FALSE, text |-> <<>>, tool |-> "none", input |-> NoInput]

NewTicketObj ==
  [EmptyObj EXCEPT !.user_id = "user_1", !.title = "Bug", !.description = "x"]

Directives ==
  {[tool |-> "git_status", input |-> NoInput],
   [tool |-> "get_user", input |-> InputStr("invalid", EmptyObj)],
   [tool |-> "create_ticket", input |-> InputStr("json", NewTicketObj)]}

LoopReplies ==
  {Reply(t, d.tool, d.input) : t \in {<<>>, <<"p", " ">>}, d \in Directives}
    \cup {Reply(<<"a", " ">>, "", NoInput), FailedReply}

\* while (iterations <= maxIterations)
LoopContinuesOffByOne(n) == n <= maxIterations

\* while (iterations < maxIterations)
LoopContinues(n) == n < maxIterations

\* finalAnswer += responseText
SetFinalAnswerAppend(finalAnswer, text) == finalAnswer \o text

\* finalAnswer = responseText
SetFinalAnswer(finalAnswer, text) == text

\* Array.prototype.includes
InSeq(seq, x) == \E i \in 1..Len(seq) : seq[i] = x

\* if (!toolsUsedInCurrentAnswer.includes(toolName)) push(toolName)
TrackTool(used, toolName) ==
  IF InSeq(used, toolName) THEN used ELSE Append(used, toolName)

\* if (textBeforeTool) finalAnswer += textBeforeTool + "\n\n"
AddTextBefore(finalAnswer, text) ==
  IF Trim(text) # <<>> THEN finalAnswer \o Trim(text) \o <<"\n\n">>
  ELSE finalAnswer

InitialPrompt(question, sources) ==
  [kind |-> "initial", question |-> question, context |-> sources,
   tools |-> TRUE, toolResult |-> NoResult]

FollowUpPrompt(question, toolResult) ==
  [kind |-> "followup", question |-> question, context |-> <<>>,
   tools |-> FALSE, toolResult |-> toolResult]

RagPrompt(question, sources) ==
  [kind |-> "rag", question |-> question, context |-> sources,
   tools |-> FALSE, toolResult |-> NoResult]

NoPrompt ==
  [kind |-> "none", question |-> "", context |-> <<>>, tools |-> FALSE,
   toolResult |-> NoResult]

(***************************************************************************)
(* The conversation (ConversationManager).                                  *)
(***************************************************************************)
maxMessages == 50

\* A variant of slice that keeps the oldest n messages.
KeepOldest(s, n) == IF Len(s) > n THEN SubSeq(s, 1, n) ELSE s

\* Array.prototype.slice(-n)
LastN(s, n) == IF Len(s) > n THEN SubSeq(s, Len(s) - n + 1, Len(s)) ELSE s

UserMessage(content) ==
  [role |-> "user", content |-> <<content>>, sources |-> <<>>]

AssistantMessage(content, sources) ==
  [role |-> "assistant", content |-> content, sources |-> sources]

\* push, then slice(-maxMessages) when the length exceeds maxMessages
addUserMessage(msgs, content) ==
  LastN(Append(msgs, UserMessage(content)), maxMessages)

addAssistantMessage(msgs, content, sources) ==
  LastN(Append(msgs, AssistantMessage(content, sources)), maxMessages)

(***************************************************************************)
(* The indexer (ProjectIndexer). A file is held as the words that          *)
(* content.split(/\s+/) gives (at least one: "" splits into one empty      *)
(* word), and the content of a chunk as the words that join(' ') joins:    *)
(* no word holds white space, so the one determines the other.             *)
(***************************************************************************)
includeFileTypes == {".ts"}

File(path, ext, n) == [path |-> path, ext |-> ext, words |-> [k \in 1..n |-> k]]

Readme == File("README.md", ".md", 2)

SmallTrees ==
  {<<Readme>>}
  \cup {<<File("a.ts", ".ts", n), Readme>> : n \in 1..MaxWords}
  \cup {<<File("a.ts", ".ts", n), File("b.ts", ".ts", m)>> :
          n \in {1, MaxWords}, m \in {2, 3}}

\* One file of 1000 words.
BigTree == <<File("big.ts", ".ts", 1000)>>

\* The indexing section of the default configuration.
DefaultConfig == [chunkSize |-> 400, chunkOverlap |-> 100]

Configs ==
  {[chunkSize |-> size, chunkOverlap |-> overlap] :
     size \in 1..MaxSize, overlap \in 0..(MaxSize + 1)}
  \cup {DefaultConfig}

\* Configurations whose window advances.
EmbedConfigs ==
  {[chunkSize |-> size, chunkOverlap |-> overlap] :
     size \in 2..MaxSize, overlap \in 0..1}

TreesFor(config) ==
  IF config = DefaultConfig THEN {BigTree, <<Readme>>} ELSE SmallTrees

\* _indexFolder and _indexFile over the tree: the files whose extension is
\* in includeFileTypes, in the order they are met.
Admitted(tree) ==
  LET included(file) == file.ext \in includeFileTypes
  IN SelectSeq(tree, included)

\* Array.prototype.slice(start, end) on indexes from 0: a negative index
\* counts from the end, and both are clamped to 0..length.
JsSlice(words, start, end) ==
  LET len == Len(words)
      Rel(k) == IF k < 0 THEN (IF len + k < 0 THEN 0 ELSE len + k)
                ELSE (IF k > len THEN len ELSE k)
  IN SubSeq(words, Rel(start) + 1, Rel(end))

\* A variant of the loop step that ignores chunkOverlap.
StepNoOverlap(config) == config.chunkSize + 0

\* i += chunkSize - chunkOverlap
Step(config) == config.chunkSize - config.chunkOverlap

\* The chunk pushed; its id is chunk_<globalChunkId>.
NewChunk(globalChunkId, chunkWords, file, chunkIndex) ==
  [id |-> globalChunkId, content |-> chunkWords, source |-> file.path,
   chunkIndex |-> chunkIndex, totalChunks |-> 0]

\* chunks.forEach(chunk => chunk.metadata.totalChunks = chunks.length)
WithTotal(cur) ==
  [k \in 1..Len(cur) |-> [cur[k] EXCEPT !.totalChunks = Len(cur)]]

\* this.indexStats, as far as the counts go.
Stats(files, chunks) ==
  [def |-> TRUE, totalFiles |-> Len(files), totalChunks |-> Len(chunks)]

\* A variant of indexProject that keeps the chunks it holds.
KeepChunks(chunks) == chunks

\* this.chunks = [];
ResetChunks(chunks) == <<>>

(***************************************************************************)
(* State.                                                                   *)
(***************************************************************************)
VARIABLES
  crm,            \* CRMService.data of the assistant's CRM service
  tasks,          \* TasksService.data
  now,            \* Date.now()
  chunks,         \* the chunks the retriever holds
  conversation,   \* ConversationManager.conversation.messages
  toolsUsedInCurrentAnswer,
  pc,             \* where the ask call in progress stands
  asks,           \* ask calls begun
  question, category, isAnalytical, searchResults,   \* locals of ask
  fullPrompt, finalAnswer, iterations,   \* locals of _generateAnswerWithTools
  result,         \* what the last ask call returned (or that it threw)
  \* History variables, reset when an ask call begins:
  llmCalls,       \* llm.invoke calls made by the tool loop
  toolRuns,       \* _executeTool calls made by the tool loop
  unfed,          \* the last tool result was in no prompt given to the LLM
  matched,        \* the tool names of the directives matched, each once,
                  \* in the order of their first match
  preTexts,       \* the non-empty texts that preceded a directive
  loopEnd,        \* how the tool loop ended
  lastReply,      \* the LLM reply the tool loop handled last
  lastExec,       \* the last _executeTool call and what it returned
  other,          \* a second ask call in flight on the same assistant
  searched,       \* the ask call observed has called rag.search
  added,          \* the messages added to the conversation since it was
                  \* created or cleared, in the order of their addition
  persist,        \* crm.json, the CRMService of the SupportAssistant, and
                  \* the tickets created and messages added by the process
  indexer,        \* the ProjectIndexer, its file tree and its output files
  convCalls,      \* calls made on the ConversationManager on its own
  rag             \* the RAGPipeline apart from its chunks, and its last search

vars ==
  <<crm, tasks, now, chunks, conversation, toolsUsedInCurrentAnswer, pc, asks,
    question, category, isAnalytical, searchResults, fullPrompt, finalAnswer,
    iterations, result, llmCalls, toolRuns, unfed, matched, preTexts, loopEnd,
    lastReply, lastExec, other, searched, added, persist, indexer, convCalls, rag>>

askLocals ==
  <<question, category, isAnalytical, searchResults, fullPrompt, finalAnswer,
    iterations>>

history ==
  <<llmCalls, toolRuns, unfed, matched, preTexts, loopEnd, lastReply>>

NoExec ==
  [ran |-> FALSE, tool |-> "", input |-> Undefined, result |-> NoResult,
   threw |-> FALSE, crmBefore |-> InitCrm, tasksBefore |-> InitTasks,
   crmAfter |-> InitCrm, tasksAfter |-> InitTasks]

Exec(tool, input, out, crmBefore, tasksBefore) ==
  [ran |-> TRUE, tool |-> tool, input |-> input, result |-> out.result,
   threw |-> out.threw, crmBefore |-> crmBefore, tasksBefore |-> tasksBefore,
   crmAfter |-> out.crm, tasksAfter |-> out.tasks]

\* Both CRMService instances of the process have loaded the same crm.json.
InitPersist ==
  [file |-> InitCrm, support |-> InitCrm, tickets |-> {}, msgs |-> {},
   replies |-> {}, replied |-> FALSE]

\* What the CRMService of the tool executor writes in an _executeTool call:
\* createTicket, updateTicket and addTicketMessage end with save(), which
\* writes the whole of this.data to crm.json.
Persist(p, e) ==
  IF e.ran /\ ~e.threw /\ e.result.kind = "json"
     /\ e.tool \in {"create_ticket", "update_ticket", "add_message"}
  THEN [p EXCEPT
          !.file = e.crmAfter,
          !.tickets = IF e.tool = "create_ticket"
                      THEN @ \cup {e.result.data[1].ticket_id} ELSE @,
          !.msgs = IF e.tool = "add_message"
                   THEN @ \cup {<<Fld(e.input, "ticket_id"),
                                  Fld(e.input, "text")>>}
                   ELSE @]
  ELSE p

NoStats == [def |-> FALSE, totalFiles |-> 0, totalChunks |-> 0]

NoRun == [def |-> FALSE, tree |-> <<>>, chunks |-> <<>>, stats |-> NoStats]

\* No ProjectIndexer constructed yet, no index files written.
InitIndexer ==
  [pc |-> "none", config |-> [chunkSize |-> 1, chunkOverlap |-> 0],
   tree |-> <<>>, files |-> <<>>, chunks |-> <<>>, stats |-> NoStats,
   diskChunks |-> <<>>, diskStats |-> NoStats,
   f |-> 0, i |-> 0, cur |-> <<>>, globalChunkId |-> 0,
   steps |-> 0, from |-> -1, outcome |-> "none",
   good |-> NoRun, repeat |-> NoRun,
   embedding |-> FALSE, provider |-> "none"]

\* The RAGPipeline after setChunks of chunks without embeddings, no search
\* made yet.
InitRag ==
  [hasEmbeddings |-> FALSE, embeddings |-> FALSE, called |-> FALSE,
   semantic |-> FALSE,
   query |-> <<>>, maxResults |-> 0, results |-> <<>>, keyword |-> <<>>]

\* The locals of the second call: where it stands, iterations, finalAnswer.
NoCall == [pc |-> "idle", iterations |-> 0, finalAnswer |-> <<>>]

NoAnswer ==
  [st |-> "none", answer |-> <<>>, sources |-> <<>>, confidence |-> 0,
   toolsUsed |-> [def |-> FALSE, names |-> <<>>], usedTools |-> FALSE]

\* The object ask returns.
Answer(answer, sources, used) ==
  [st |-> "returned", answer |-> answer, sources |-> sources,
   confidence |-> _calculateConfidence(sources),
   toolsUsed |-> IF Len(used) > 0 THEN [def |-> TRUE, names |-> used]
                 ELSE [def |-> FALSE, names |-> <<>>],
   usedTools |-> Len(used) > 0]

Thrown == [NoAnswer EXCEPT !.st = "threw"]

\* The state after initialize(): the index loaded, the services created,
\* an empty conversation.
InitButStores ==
  /\ now = 0
  /\ chunks \in {[i \in 1..n |-> Chunk(i)] : n \in 0..MaxChunks}
  /\ toolsUsedInCurrentAnswer = <<>>
  /\ pc = "idle"
  /\ asks = 0
  /\ question = ""
  /\ category = "rag"
  /\ isAnalytical = FALSE
  /\ searchResults = <<>>
  /\ fullPrompt = NoPrompt
  /\ finalAnswer = <<>>
  /\ iterations = 0
  /\ result = NoAnswer
  /\ llmCalls = 0
  /\ toolRuns = 0
  /\ unfed = FALSE
  /\ matched = <<>>
  /\ preTexts = {}
  /\ loopEnd = "none"
  /\ lastReply = NoReply
  /\ lastExec = NoExec
  /\ other = NoCall
  /\ searched = FALSE
  /\ indexer = InitIndexer
  /\ convCalls = 0
  /\ rag = InitRag

InitButConversation ==
  /\ InitButStores
  /\ crm = InitCrm
  /\ tasks = InitTasks
  /\ persist = InitPersist

Init == InitButConversation /\ conversation = <<>> /\ added = <<>>

(***************************************************************************)
(* CodeAssistant.ask, one action per stretch of code between two awaits.    *)
(***************************************************************************)
\* this.llm is set by initialize().
hasLLM == TRUE

WithinBounds(c, t) ==
  /\ Len(c.tickets) <= MaxTickets
  /\ \A i \in 1..Len(c.tickets) : Len(c.tickets[i].messages) <= MaxMsgs
  /\ Len(t.tasks) <= MaxTasks

\* this.toolsUsedInCurrentAnswer = [];
ResetTools(used) == <<>>

\* ask, up to the call of _classifyQuestion.
AskBegin(q) ==
  /\ pc = "idle"
  /\ asks' = asks + 1
  /\ toolsUsedInCurrentAnswer' = ResetTools(toolsUsedInCurrentAnswer)
  /\ conversation' = addUserMessage(conversation, q)
  /\ added' = Append(added, UserMessage(q))
  /\ searched' = FALSE
  /\ question' = q
  /\ pc' = "classify"
  /\ result' = NoAnswer
  /\ llmCalls' = 0
  /\ toolRuns' = 0
  /\ unfed' = FALSE
  /\ matched' = <<>>
  /\ preTexts' = {}
  /\ loopEnd' = "none"
  /\ lastReply' = NoReply
  /\ lastExec' = NoExec
  /\ UNCHANGED <<crm, tasks, now, chunks, category, isAnalytical,
                 searchResults, fullPrompt, finalAnswer, iterations,
                 other>>
  /\ UNCHANGED <<persist, indexer, convCalls, rag>>

\* An exception leaves ask.
AskThrows ==
  /\ pc' = "idle"
  /\ result' = Thrown

\* _classifyQuestion answered by one of its patterns.
Classify ==
  /\ pc = "classify"
  /\ FastCategory(question) # "llm"
  /\ category' = FastCategory(question)
  /\ pc' = "analytical"
  /\ UNCHANGED <<crm, tasks, now, chunks, conversation,
                 toolsUsedInCurrentAnswer, asks, question, isAnalytical,
                 searchResults, fullPrompt, finalAnswer, iterations, result,
                 history, lastExec,
                 other>>
  /\ UNCHANGED <<searched, added, persist, indexer, convCalls, rag>>

\* _classifyQuestion answered by _llmClassify.
LlmClassify(reply) ==
  /\ pc = "classify"
  /\ FastCategory(question) = "llm"
  /\ IF _llmClassify(reply).threw
     THEN AskThrows /\ UNCHANGED category
     ELSE /\ category' = _llmClassify(reply).value
          /\ pc' = "analytical"
          /\ UNCHANGED result
  /\ UNCHANGED <<crm, tasks, now, chunks, conversation,
                 toolsUsedInCurrentAnswer, asks, question, isAnalytical,
                 searchResults, fullPrompt, finalAnswer, iterations,
                 history, lastExec,
                 other>>
  /\ UNCHANGED <<searched, added, persist, indexer, convCalls, rag>>

\* _isAnalyticalQuestion answered by one of its patterns.
Analytical ==
  /\ pc = "analytical"
  /\ FastAnalytical(question) # "llm"
  /\ isAnalytical' = (FastAnalytical(question) = "yes")
  /\ pc' = "generate"
  /\ UNCHANGED <<crm, tasks, now, chunks, conversation,
                 toolsUsedInCurrentAnswer, asks, question, category,
                 searchResults, fullPrompt, finalAnswer, iterations, result,
                 history, lastExec,
                 other>>
  /\ UNCHANGED <<searched, added, persist, indexer, convCalls, rag>>

\* _isAnalyticalQuestion answered by _llmIsAnalytical.
LlmAnalytical(reply) ==
  /\ pc = "analytical"
  /\ FastAnalytical(question) = "llm"
  /\ IF _llmIsAnalytical(reply).threw
     THEN AskThrows /\ UNCHANGED isAnalytical
     ELSE /\ isAnalytical' = _llmIsAnalytical(reply).value
          /\ pc' = "generate"
          /\ UNCHANGED result
  /\ UNCHANGED <<crm, tasks, now, chunks, conversation,
                 toolsUsedInCurrentAnswer, asks, question, category,
                 searchResults, fullPrompt, finalAnswer, iterations,
                 history, lastExec,
                 other>>
  /\ UNCHANGED <<searched, added, persist, indexer, convCalls, rag>>

\* A variant of ask that searches for every question.
RetrievalAlways ==
  [searched |-> TRUE, results |-> search(chunks, maxResults)]

\* category === "rag" || isAnalytical ? this.rag.search(...) : []
Retrieval ==
  IF category = "rag" \/ isAnalytical
  THEN [searched |-> TRUE, results |-> search(chunks, maxResults)]
  ELSE [searched |-> FALSE, results |-> <<>>]

Retrieved == Retrieval.results

\* A variant of ask that takes the tool loop for every category.
ToolCategoryAny == category \in {"rag", "git", "crm", "tasks"}

\* category === "git" || category === "crm" || category === "tasks"
ToolCategory == category \in {"git", "crm", "tasks"}

\* The end of ask: the assistant message is added and the answer returned.
Finish(answer, sources, used) ==
  /\ conversation' = addAssistantMessage(conversation, answer, sources)
  /\ added' = Append(added, AssistantMessage(answer, sources))
  /\ result' = Answer(answer, sources, used)
  /\ pc' = "idle"

\* ask from the search to the first llm.invoke of _generateAnswerWithTools.
StartToolLoop ==
  /\ pc = "generate"
  /\ hasLLM /\ ToolCategory
  /\ searchResults' = Retrieved
  /\ searched' = Retrieval.searched
  /\ fullPrompt' =
       InitialPrompt(question, IF isAnalytical THEN Retrieved ELSE <<>>)
  /\ finalAnswer' = <<>>
  /\ iterations' = 1
  /\ llmCalls' = 1
  /\ pc' = "invoke"
  /\ UNCHANGED <<crm, tasks, now, chunks, conversation,
                 toolsUsedInCurrentAnswer, asks, question, category,
                 isAnalytical, result, toolRuns, unfed, matched, preTexts,
                 loopEnd, lastReply, lastExec,
                 other>>
  /\ UNCHANGED <<added, persist, indexer, convCalls, rag>>

\* ask from the search to the llm.invoke of _generateAnswerWithRAG.
StartRag ==
  /\ pc = "generate"
  /\ ~(hasLLM /\ ToolCategory)
  /\ hasLLM /\ Len(Retrieved) > 0
  /\ searchResults' = Retrieved
  /\ searched' = Retrieval.searched
  /\ fullPrompt' = RagPrompt(question, Retrieved)
  /\ pc' = "ragInvoke"
  /\ UNCHANGED <<crm, tasks, now, chunks, conversation,
                 toolsUsedInCurrentAnswer, asks, question, category,
                 isAnalytical, finalAnswer, iterations, result, history,
                 lastExec,
                 other>>
  /\ UNCHANGED <<added, persist, indexer, convCalls, rag>>

\* ask from the search to its return when neither branch applies.
Fallback ==
  /\ pc = "generate"
  /\ ~(hasLLM /\ ToolCategory)
  /\ ~(hasLLM /\ Len(Retrieved) > 0)
  /\ searchResults' = Retrieved
  /\ searched' = Retrieval.searched
  /\ Finish(_generateAnswer(question, Retrieved), Retrieved,
            toolsUsedInCurrentAnswer)
  /\ UNCHANGED <<crm, tasks, now, chunks, toolsUsedInCurrentAnswer, asks,
                 question, category, isAnalytical, fullPrompt, finalAnswer,
                 iterations, history, lastExec,
                 other>>
  /\ UNCHANGED <<persist, indexer, convCalls, rag>>

\* The text of a reply as a whole, directive included.
ResponseText(reply) ==
  reply.text \o (IF reply.tool # ""
                 THEN <<"<tool>" \o reply.tool \o "</tool>">> ELSE <<>>)

RagReplies ==
  {FailedReply, Reply(<<"a", " ">>, "", NoInput),
   Reply(<<"a">>, "create_ticket", InputStr("json", NewTicketObj))}

\* _generateAnswerWithRAG returns or rethrows; ask catches and falls back.
RagAnswer(reply) ==
  /\ pc = "ragInvoke"
  /\ lastReply' = reply
  /\ Finish(IF reply.failed THEN _generateAnswer(question, searchResults)
            ELSE ResponseText(reply),
            searchResults, toolsUsedInCurrentAnswer)
  /\ UNCHANGED <<crm, tasks, now, chunks, toolsUsedInCurrentAnswer, asks,
                 askLocals, llmCalls, toolRuns, unfed, matched, preTexts,
                 loopEnd, lastExec,
                 other>>
  /\ UNCHANGED <<searched, persist, indexer, convCalls, rag>>

\* One iteration of the loop of _generateAnswerWithTools, from the answer
\* to llm.invoke(fullPrompt) to the loop test that follows it, for a call
\* whose locals are q (userQuestion), prompt (fullPrompt), answer
\* (finalAnswer) and n (iterations). used is this.toolsUsedInCurrentAnswer.
\* exit says how the loop is left ("none": it goes on to the next
\* llm.invoke), ran whether _executeTool was called.
LoopStep(reply, git, q, prompt, answer, used, n, c, t, clock) ==
  LET text == AddTextBefore(answer, reply.text)
      used2 == TrackTool(used, reply.tool)
      input == ParseInput(reply.input)
      out == ExecuteTool(reply.tool, input.value, c, t, clock, git)
      stay == [exit |-> "exception", finalAnswer |-> answer, used |-> used,
               prompt |-> prompt, crm |-> c, tasks |-> t, ran |-> FALSE,
               exec |-> NoExec]
      run == [stay EXCEPT !.finalAnswer = text, !.used = used2,
                          !.crm = out.crm, !.tasks = out.tasks, !.ran = TRUE,
                          !.exec = Exec(reply.tool, input.value, out, c, t)]
  IN IF reply.failed
     THEN \* llm.invoke rejected: catch (error) { break; }
          stay
     ELSE IF reply.tool = ""
     THEN \* no directive: finalAnswer = responseText; break;
          [stay EXCEPT !.exit = "final",
                       !.finalAnswer = SetFinalAnswer(answer, reply.text)]
     ELSE IF input.threw
     THEN \* JSON.parse threw: catch (error) { break; }
          [stay EXCEPT !.finalAnswer = text, !.used = used2]
     ELSE IF out.threw
     THEN \* _executeTool threw: catch (error) { break; }
          run
     ELSE [run EXCEPT !.prompt = FollowUpPrompt(q, out.result),
                      !.exit = IF LoopContinues(n) THEN "none" ELSE "cap"]

\* The iteration in the ask call observed; when the loop is left,
\* finalAnswer.trim() goes back to ask, which returns.
ToolLoop(reply, git) ==
  LET directive == ~reply.failed /\ reply.tool # "" IN
  \E s \in {LoopStep(reply, git, question, fullPrompt, finalAnswer,
                     toolsUsedInCurrentAnswer, iterations, crm, tasks, now)} :
  /\ pc = "invoke"
  /\ WithinBounds(s.crm, s.tasks)
  /\ lastReply' = reply
  /\ toolsUsedInCurrentAnswer' = s.used
  /\ crm' = s.crm
  /\ tasks' = s.tasks
  /\ fullPrompt' = s.prompt
  /\ finalAnswer' = s.finalAnswer
  /\ loopEnd' = s.exit
  /\ lastExec' = IF s.ran THEN s.exec ELSE lastExec
  /\ toolRuns' = IF s.ran THEN toolRuns + 1 ELSE toolRuns
  /\ unfed' = IF s.ran THEN s.exit # "none" ELSE unfed
  /\ matched' = IF directive /\ ~InSeq(matched, reply.tool)
                THEN Append(matched, reply.tool) ELSE matched
  /\ preTexts' = IF directive /\ Trim(reply.text) # <<>>
                 THEN preTexts \cup {Trim(reply.text)} ELSE preTexts
  /\ IF s.exit = "none"
     THEN \* the next llm.invoke(fullPrompt)
          /\ iterations' = iterations + 1
          /\ llmCalls' = llmCalls + 1
          /\ UNCHANGED <<pc, conversation, added, result>>
     ELSE /\ Finish(Trim(s.finalAnswer), searchResults, s.used)
          /\ UNCHANGED <<iterations, llmCalls>>
  /\ UNCHANGED <<now, chunks, asks, question, category, isAnalytical,
                 searchResults, other>>
  /\ persist' = Persist(persist, s.exec)
  /\ UNCHANGED <<searched, indexer, convCalls, rag>>

\* Time passes.
Tick ==
  /\ now < MaxClock
  /\ now' = now + 1
  /\ UNCHANGED <<crm, tasks, chunks, conversation, toolsUsedInCurrentAnswer,
                 pc, asks, askLocals, result, history, lastExec,
                 other>>
  /\ UNCHANGED <<searched, added, persist, indexer, convCalls, rag>>

\* _executeTool called on its own, as a caller of the executor may.
ToolCall(call, git) ==
  \E out \in {ExecuteTool(call.tool, call.input, crm, tasks, now, git)} :
  /\ pc = "idle"
  /\ asks = 0
  /\ WithinBounds(out.crm, out.tasks)
  /\ lastExec' = Exec(call.tool, call.input, out, crm, tasks)
  /\ crm' = out.crm
  /\ tasks' = out.tasks
  /\ UNCHANGED <<now, chunks, conversation, toolsUsedInCurrentAnswer, pc,
                 asks, askLocals, result, history, other>>
  /\ persist' = Persist(persist, Exec(call.tool, call.input, out, crm, tasks))
  /\ UNCHANGED <<searched, added, indexer, convCalls, rag>>

\* A second ask call on the same assistant, for a question that the
\* patterns classify as "crm" and as not analytical: from its start to its
\* first llm.invoke (the steps in between touch its locals only).
OtherQuestion == "List all tickets for user user_1"

OtherBegin ==
  /\ other.pc = "idle"
  /\ toolsUsedInCurrentAnswer' = ResetTools(toolsUsedInCurrentAnswer)
  /\ conversation' = addUserMessage(conversation, OtherQuestion)
  /\ added' = Append(added, UserMessage(OtherQuestion))
  /\ other' = [pc |-> "invoke", iterations |-> 1, finalAnswer |-> <<>>]
  /\ UNCHANGED <<crm, tasks, now, chunks, pc, asks, askLocals, result,
                 history, lastExec>>
  /\ UNCHANGED <<searched, persist, indexer, convCalls, rag>>

\* One iteration of the loop in the second call; its prompt and the answer
\* it returns go to its own caller and are not kept.
OtherLoop(reply, git) ==
  \E s \in {LoopStep(reply, git, OtherQuestion, NoPrompt, other.finalAnswer,
                     toolsUsedInCurrentAnswer, other.iterations, crm, tasks,
                     now)} :
  /\ other.pc = "invoke"
  /\ WithinBounds(s.crm, s.tasks)
  /\ toolsUsedInCurrentAnswer' = s.used
  /\ crm' = s.crm
  /\ tasks' = s.tasks
  /\ IF s.exit = "none"
     THEN /\ other' = [pc |-> "invoke", iterations |-> other.iterations + 1,
                       finalAnswer |-> s.finalAnswer]
          /\ UNCHANGED <<conversation, added>>
     ELSE /\ other' = [pc |-> "done", iterations |-> other.iterations,
                       finalAnswer |-> s.finalAnswer]
          /\ conversation' =
               addAssistantMessage(conversation, Trim(s.finalAnswer), <<>>)
          /\ added' =
               Append(added, AssistantMessage(Trim(s.finalAnswer), <<>>))
  /\ UNCHANGED <<now, chunks, pc, asks, askLocals, result, history, lastExec>>
  /\ persist' = Persist(persist, s.exec)
  /\ UNCHANGED <<searched, indexer, convCalls, rag>>

(***************************************************************************)
(* One ask call on a freshly initialized assistant.                         *)
(***************************************************************************)
FirstAsk(q) == asks = 0 /\ AskBegin(q)

Next ==
  \/ \E q \in Questions : FirstAsk(q)
  \/ Classify
  \/ \E r \in ClassifyReplies : LlmClassify(r)
  \/ Analytical
  \/ \E r \in AnalyticalReplies : LlmAnalytical(r)
  \/ StartToolLoop
  \/ StartRag
  \/ Fallback
  \/ \E r \in LoopReplies, g \in GitOutcomes : ToolLoop(r, g)
  \/ \E r \in RagReplies : RagAnswer(r)
  \/ Tick

Spec == Init /\ [][Next]_vars

(***************************************************************************)
(* The executor on its own: sequences of _executeTool calls.                *)
(***************************************************************************)
With(f, v) == [EmptyObj EXCEPT ![f] = v]

ToolCalls ==
  {[tool |-> t, input |-> Undefined] : t \in ToolNames \cup {"deploy"}}
  \cup {[tool |-> "get_user", input |-> Obj(With("user_id", u))] :
          u \in {"user_1", "user_9"}}
  \cup {[tool |-> "list_tickets", input |-> Obj(With("user_id", "user_1"))],
        [tool |-> "list_tickets", input |-> Obj(With("status", "open"))]}
  \cup {[tool |-> "create_ticket", input |-> Obj(o)] :
          o \in {NewTicketObj,
                 [NewTicketObj EXCEPT !.user_id = "user_9"],
                 [NewTicketObj EXCEPT !.title = NonString],
                 [NewTicketObj EXCEPT !.description = Absent]}}
  \cup {[tool |-> "update_ticket", input |-> Obj(o)] :
          o \in {[With("ticket_id", i) EXCEPT !.status = "closed"] :
                   i \in {"ticket_a", "ticket_z"}}}
  \cup {[tool |-> "add_message", input |-> Obj(o)] :
          o \in {[With("ticket_id", "ticket_a") EXCEPT !.text = "hi"],
                 [With("ticket_id", "ticket_z") EXCEPT !.text = "hi"],
                 With("ticket_id", "ticket_a")}}
  \cup {[tool |-> "search_tickets", input |-> Obj(o)] :
          o \in {With("query", "UG"), With("query", NonString),
                 With("user_id", "user_1")}}
  \cup {[tool |-> "list_tasks", input |-> Obj(With("priority", "high"))]}
  \cup {[tool |-> "get_task", input |-> Obj(With("task_id", i))] :
          i \in {"task_a", "task_z"}}
  \cup {[tool |-> "create_task", input |-> Obj(o)] :
          o \in {[With("title", "Bug") EXCEPT !.description = "x",
                                              !.assignee = "dev_1"],
                 [With("title", "Bug") EXCEPT !.description = "x"]}}
  \cup {[tool |-> "update_task", input |-> Obj(o)] :
          o \in {[With("task_id", i) EXCEPT !.status = "done"] :
                   i \in {"task_a", "task_z"}}}

\* Only the two git tools read what git reports.
GitFor(call) ==
  IF call.tool \in {"git_branch", "git_status"} THEN GitOutcomes
  ELSE {CHOOSE g \in GitOutcomes : g.branch = "main"}

\* The executor does not read the index: one index is enough.
InitTool == Init /\ Len(chunks) = 1

NextTool ==
  \/ \E c \in ToolCalls : \E g \in GitFor(c) : ToolCall(c, g)
  \/ Tick

SpecTool == InitTool /\ [][NextTool]_vars

(***************************************************************************)
(* The ConversationManager on its own: sequences of addUserMessage,         *)
(* addAssistantMessage and clear calls.                                     *)
(***************************************************************************)
\* The messages k calls add to a new conversation, as asks do: a question,
\* its answer, the next question, ... each with a text of its own.
Asked(k) ==
  [i \in 1..k |-> IF i % 2 = 1 THEN UserMessage("q" \o ToString(i))
                  ELSE AssistantMessage(<<"r" \o ToString(i)>>, <<>>)]

InitConv ==
  /\ InitButConversation /\ chunks = <<>>
  /\ \E k \in 0..maxMessages : conversation = Asked(k) /\ added = Asked(k)

ConvCall(after, log) ==
  /\ convCalls < MaxConvCalls
  /\ convCalls' = convCalls + 1
  /\ conversation' = after
  /\ added' = log
  /\ UNCHANGED <<crm, tasks, now, chunks, toolsUsedInCurrentAnswer, pc, asks,
                 askLocals, result, history, lastExec, other, searched,
                 persist, indexer, rag>>

ConvAddUser(content) ==
  ConvCall(addUserMessage(conversation, content),
           Append(added, UserMessage(content)))

ConvAddAssistant(content) ==
  ConvCall(addAssistantMessage(conversation, <<content>>, <<>>),
           Append(added, AssistantMessage(<<content>>, <<>>)))

\* ConversationManager.clear
ConvClear == ConvCall(<<>>, <<>>)

\* Each call comes with a text of its own.
ConvContents == {"c" \o ToString(convCalls)}

NextConv ==
  \/ \E content \in ConvContents : ConvAddUser(content)
  \/ \E content \in ConvContents : ConvAddAssistant(content)
  \/ ConvClear

SpecConv == InitConv /\ [][NextConv]_vars

(***************************************************************************)
(* The indexer: indexProject calls on one ProjectIndexer, the file tree     *)
(* changing between calls.                                                  *)
(***************************************************************************)
notIndexer ==
  <<crm, tasks, now, chunks, conversation, toolsUsedInCurrentAnswer, pc, asks,
    askLocals, result, history, lastExec, other, searched, added, persist,
    convCalls, rag>>

\* new ProjectIndexer(config), pointed at a project tree.
NewIndexer(config, tree, enabled) ==
  /\ indexer.pc = "none"
  /\ indexer' = [indexer EXCEPT !.pc = "idle", !.config = config,
                                !.tree = tree, !.embedding = enabled]
  /\ UNCHANGED notIndexer

\* A file is added, removed or rewritten while no indexing runs.
TreeChange(tree) ==
  /\ indexer.pc = "idle"
  /\ tree # indexer.tree
  /\ indexer' = [indexer EXCEPT !.tree = tree]
  /\ UNCHANGED notIndexer

\* indexProject up to the loop of _createChunks, over a tree with a file
\* that is admitted.
IndexBegin ==
  /\ indexer.pc = "idle"
  /\ Len(Admitted(indexer.tree)) > 0
  /\ indexer' =
       [indexer EXCEPT
          !.files = Admitted(indexer.tree),
          !.chunks = ResetChunks(@),
          !.pc = "chunking", !.f = 1, !.i = 0, !.cur = <<>>,
          !.globalChunkId = 0, !.steps = 0, !.from = -1,
          !.outcome = "none", !.provider = "none",
          !.repeat = IF indexer.good.def /\ indexer.good.tree = indexer.tree
                     THEN indexer.good ELSE NoRun]
  /\ UNCHANGED notIndexer

\* indexProject over a tree with no file that is admitted: it throws.
IndexNoFiles ==
  /\ indexer.pc = "idle"
  /\ Len(Admitted(indexer.tree)) = 0
  /\ indexer' = [indexer EXCEPT !.files = <<>>, !.chunks = ResetChunks(@),
                                !.outcome = "threw", !.repeat = NoRun]
  /\ UNCHANGED notIndexer

\* One iteration of the inner loop of _createChunks.
ChunkStep ==
  LET file == indexer.files[indexer.f]
      chunkWords ==
        JsSlice(file.words, indexer.i, indexer.i + indexer.config.chunkSize)
      pushed == Len(chunkWords) # 0
  IN
  /\ indexer.pc = "chunking"
  /\ indexer.i < Len(file.words)
  /\ indexer.steps < MaxSteps
  /\ indexer' =
       [indexer EXCEPT
          !.cur = IF pushed
                  THEN Append(@, NewChunk(indexer.globalChunkId, chunkWords,
                                          file, Len(indexer.cur)))
                  ELSE @,
          !.globalChunkId = IF pushed THEN @ + 1 ELSE @,
          !.from = indexer.i,
          !.i = @ + Step(indexer.config),
          !.steps = @ + 1]
  /\ UNCHANGED notIndexer

\* The end of the inner loop: totalChunks is set, the chunks of the file
\* are pushed, and the next file is taken; after the last file
\* indexProject sets indexStats and calls _saveIndex.
FileDone ==
  /\ indexer.pc = "chunking"
  /\ indexer.i >= Len(indexer.files[indexer.f].words)
  /\ \E all \in {indexer.chunks \o WithTotal(indexer.cur)} :
       indexer' =
         IF indexer.f < Len(indexer.files)
         THEN [indexer EXCEPT !.chunks = all, !.f = @ + 1, !.i = 0,
                              !.cur = <<>>, !.steps = 0, !.from = -1]
         ELSE [indexer EXCEPT !.chunks = all, !.cur = <<>>, !.pc = "save",
                              !.stats = Stats(indexer.files, all)]
  /\ UNCHANGED notIndexer

\* generateFallbackEmbeddings: one vector per chunk over the vocabulary of
\* all chunks (at most 256 entries), each entry the frequency of the word in
\* the chunk over the number of tokens of the chunk, written <<freq, n>>.
\* The words of the model files stand for words of more than two
\* characters, and are met in increasing order.
generateFallbackEmbeddings(chs) ==
  LET vocabulary ==
        UNION {{chs[k].content[j] : j \in 1..Len(chs[k].content)} :
                 k \in 1..Len(chs)}
      width == IF Cardinality(vocabulary) < 256
               THEN Cardinality(vocabulary) ELSE 256
      vocabArray ==
        [idx \in 1..Cardinality(vocabulary) |->
           CHOOSE w \in vocabulary :
             Cardinality({v \in vocabulary : v < w}) = idx - 1]
      freq(tokens, w) == Cardinality({j \in 1..Len(tokens) : tokens[j] = w})
  IN [k \in 1..Len(chs) |->
        [idx \in 1..width |->
           <<freq(chs[k].content, vocabArray[idx]), Len(chs[k].content)>>]]

\* generateChunkEmbeddings: the chunks as they are when embeddings are
\* disabled; else every chunk with an embedding, the provider's when every
\* request succeeded (the vectors are the provider's choice: only their
\* origin is kept), the fallback one when a request failed.
generateChunkEmbeddings(chs, enabled, provider) ==
  LET withEmbedding(c, e) ==
        [fld \in DOMAIN c \cup {"embedding"} |->
           IF fld = "embedding" THEN e ELSE c[fld]]
      fallbackEmbeddings == generateFallbackEmbeddings(chs)
  IN IF ~enabled THEN chs
     ELSE IF provider
     THEN [k \in 1..Len(chs) |-> withEmbedding(chs[k], <<"ollama">>)]
     ELSE [k \in 1..Len(chs) |-> withEmbedding(chs[k], fallbackEmbeddings[k])]

\* _saveIndex up to the end of writeFile(chunksPath): mkdir or the write
\* fails (ok = FALSE), or chunks.json holds chunksToSave; the embedding
\* provider answers every request (provider = TRUE) or fails one.
SaveChunks(ok, provider) ==
  /\ indexer.pc = "save"
  /\ indexer.embedding \/ provider   \* no request is made when disabled
  /\ \E chunksToSave \in {generateChunkEmbeddings(indexer.chunks,
                                                   indexer.embedding,
                                                   provider)} :
       indexer' =
         IF ok THEN [indexer EXCEPT
                       !.diskChunks = chunksToSave, !.pc = "saveStats",
                       !.provider = IF ~indexer.embedding THEN "none"
                                    ELSE IF provider THEN "ok" ELSE "failed"]
         ELSE [indexer EXCEPT !.pc = "idle", !.outcome = "threw"]
  /\ UNCHANGED notIndexer

\* writeFile(statsPath), and the return of indexProject.
SaveStats(ok) ==
  /\ indexer.pc = "saveStats"
  /\ indexer' =
       IF ok
       THEN [indexer EXCEPT
               !.diskStats = indexer.stats, !.pc = "idle", !.outcome = "ok",
               !.good = [def |-> TRUE, tree |-> indexer.tree,
                         chunks |-> indexer.chunks, stats |-> indexer.stats]]
       ELSE [indexer EXCEPT !.pc = "idle", !.outcome = "threw"]
  /\ UNCHANGED notIndexer

NextIndex ==
  \/ \E config \in Configs : \E tree \in TreesFor(config) :
       NewIndexer(config, tree, FALSE)
  \/ \E tree \in TreesFor(indexer.config) : TreeChange(tree)
  \/ IndexBegin
  \/ IndexNoFiles
  \/ ChunkStep
  \/ FileDone
  \/ \E ok \in BOOLEAN : SaveChunks(ok, TRUE)
  \/ \E ok \in BOOLEAN : SaveStats(ok)

\* The indexer reads neither the chunks the retriever holds nor the stores.
InitIndex == Init /\ chunks = <<>>

\* Indexing with config.embedding absent or disabled (the default).
SpecIndex == InitIndex /\ [][NextIndex]_vars

\* Indexing with config.embedding.enabled set or not, with a provider that
\* answers or fails.
NextEmbed ==
  \/ \E config \in EmbedConfigs : \E tree \in SmallTrees :
       \E enabled \in BOOLEAN : NewIndexer(config, tree, enabled)
  \/ \E tree \in SmallTrees : TreeChange(tree)
  \/ IndexBegin
  \/ IndexNoFiles
  \/ ChunkStep
  \/ FileDone
  \/ \E ok, provider \in BOOLEAN : SaveChunks(ok, provider)
  \/ \E ok \in BOOLEAN : SaveStats(ok)

SpecEmbed == InitIndex /\ [][NextEmbed]_vars

(***************************************************************************)
(* The retriever on its own: setChunks, setEmbeddings and search, over      *)
(* indexes with and without embeddings.                                     *)
(***************************************************************************)
Rep(w, n) == [k \in 1..n |-> w]

SearchContent(i) ==
  CASE i = 1 -> Rep("indexes", 5)
    [] i = 2 -> Rep("indexes", 5) \o <<"index">>
    [] i = 3 -> Rep("index", 5)
    [] i = 4 -> Rep("lorem", 100)
    [] i = 5 -> <<"the", "login", "Auth", "db">>
    [] OTHER -> <<"function", "author", "token">>

\* The chunk i of an index file: without the field embedding ("none"), or
\* with a vector, which may be empty.
SearchChunk(i, e) ==
  LET chunk == [id |-> "chunk_" \o ToString(i), content |-> SearchContent(i),
                source |-> "src/f" \o ToString(i) \o ".ts"]
      embedding == CASE e = "a" -> <<1, 0>>
                     [] e = "b" -> <<0, 1>>
                     [] OTHER -> <<>>
  IN IF e = "none" THEN chunk
     ELSE [fld \in DOMAIN chunk \cup {"embedding"} |->
             IF fld = "embedding" THEN embedding ELSE chunk[fld]]

\* Index files: the ids of the chunks of one index differ (the indexer
\* numbers them).
SearchIndexes ==
  LET layouts == {<<>>, <<1, 2>>, <<3, 4>>, <<5, 6, 1>>, <<4, 5, 6, 1, 2, 3>>}
      kinds == {<<"none", "none">>, <<"a", "a">>, <<"b", "a">>,
                <<"a", "none">>, <<"empty", "empty">>}
  IN {[k \in 1..Len(l) |-> SearchChunk(l[k], kind[1 + (k % 2)])] :
        l \in layouts, kind \in kinds}

SearchQueries ==
  {<<>>, <<"index">>, <<"the", "Index", "db">>, <<"Auth", "token">>,
   <<"indexing", "login">>, <<"Index">> \o Rep("zebra", 14)}

SearchLimits == {0, 1, 2, maxResults}

notRag ==
  <<crm, tasks, now, conversation, toolsUsedInCurrentAnswer, pc, asks,
    askLocals, result, history, lastExec, other, searched, added, persist,
    indexer, convCalls>>

\* setChunks(chunks); the record of the last search is of the chunks
\* replaced.
SetChunks(chs) ==
  /\ chunks' = chs
  /\ rag' = [InitRag EXCEPT
               !.embeddings = rag.embeddings,
               !.hasEmbeddings =
                  \E k \in 1..Len(chs) :
                    /\ "embedding" \in DOMAIN chs[k]
                    /\ Len(chs[k].embedding) > 0]
  /\ UNCHANGED notRag

\* setEmbeddings(embeddings)
SetEmbeddings ==
  /\ rag' = [rag EXCEPT !.embeddings = TRUE]
  /\ UNCHANGED <<chunks, notRag>>

\* search(query, maxResults); keyword is what _keywordSearch gives for the
\* same chunks and query.
Search(query, limit) ==
  /\ \E semantic \in {rag.hasEmbeddings /\ rag.embeddings} :
     \E keyword \in {_keywordSearch(chunks, query, limit)} :
     \E results \in {IF semantic THEN _hybridRRFSearch(chunks, query, limit)
                     ELSE keyword} :
       rag' = [rag EXCEPT !.called = TRUE, !.semantic = semantic,
                          !.query = query, !.maxResults = limit,
                          !.results = results, !.keyword = keyword]
  /\ UNCHANGED <<chunks, notRag>>

NextSearch ==
  \/ \E chs \in SearchIndexes : SetChunks(chs)
  \/ SetEmbeddings
  \/ \E query \in SearchQueries : \E limit \in SearchLimits :
       Search(query, limit)

SpecSearch == Init /\ [][NextSearch]_vars

(***************************************************************************)
(* A request to the support server: SupportAssistant.answerQuestion calls   *)
(* ask and then writes the answer to the ticket of the request through its  *)
(* own CRMService, which loaded crm.json when it was constructed.           *)
(***************************************************************************)
TicketIds == {"", "ticket_a"}

\* answerQuestion from the return of this.assistant.ask to its own return,
\* for a request with the given ticket_id ("" when it has none). The ticket
\* passed the getTicket test at the start of the call, on data that only
\* this statement changes.
SupportReply(ticketId) ==
  /\ pc = "idle" /\ result.st = "returned" /\ ~persist.replied
  /\ ticketId # "" => FindIdx(persist.support.tickets, ticketId) # 0
  /\ \E s \in {addTicketMessage(persist.support, ticketId,
                    [sender |-> "support_bot", text |-> result.answer])} :
       persist' =
         IF ticketId # ""
         THEN [persist EXCEPT !.support = s, !.file = s,
                 !.replies = @ \cup {<<ticketId, result.answer>>},
                 !.replied = TRUE]
         ELSE [persist EXCEPT !.replied = TRUE]
  /\ UNCHANGED <<crm, tasks, now, chunks, conversation,
                 toolsUsedInCurrentAnswer, pc, asks, askLocals, result,
                 history, lastExec, other, searched, added, indexer, convCalls, rag>>

NextCrm ==
  \/ Next
  \/ \E t \in TicketIds : SupportReply(t)

SpecCrm == Init /\ [][NextCrm]_vars

(***************************************************************************)
(* Creations on stores that hold no ticket and no task yet.                 *)
(***************************************************************************)
InitCreate ==
  /\ InitButStores /\ Len(chunks) = 1
  /\ conversation = <<>> /\ added = <<>>
  /\ crm = [InitCrm EXCEPT !.tickets = <<>>]
  /\ tasks = [tasks |-> <<>>]
  /\ persist = [InitPersist EXCEPT !.file = crm, !.support = crm]

NextCreate ==
  \/ \E c \in ToolCalls : \E g \in GitFor(c) :
       c.tool \in {"create_ticket", "create_task"} /\ ToolCall(c, g)
  \/ Tick

SpecCreate == InitCreate /\ [][NextCreate]_vars

(***************************************************************************)
(* Two ask calls that overlap, as two requests to the support server make   *)
(* them: both run on the one CodeAssistant of the process.                  *)
(***************************************************************************)
OverlapReplies ==
  {Reply(<<>>, "git_status", NoInput),
   Reply(<<>>, "get_user", InputStr("invalid", EmptyObj)),
   Reply(<<"a">>, "", NoInput)}

OverlapGit == [branch |-> "main", status |-> ""]

NextOverlap ==
  \/ FirstAsk(OtherQuestion)
  \/ Classify
  \/ Analytical
  \/ StartToolLoop
  \/ \E r \in OverlapReplies : ToolLoop(r, OverlapGit)
  \/ OtherBegin
  \/ \E r \in OverlapReplies : OtherLoop(r, OverlapGit)

SpecOverlap == Init /\ [][NextOverlap]_vars

(***************************************************************************)
(* Properties of the tool loop and of ask (checked under Spec).             *)
(***************************************************************************)
\* C1: the tool-calling loop terminates: it never makes more than 5 LLM
\* invocations nor more than one tool execution per invocation, every
\* iteration either leaves the loop or raises the iteration count, which
\* never passes 5; when every response holds a directive (5 tool
\* executions) it stops at the cap after exactly 5 iterations, and however
\* it stops, ask has returned an answer and has not thrown.
C1_LoopTerminates ==
  /\ iterations <= 5 /\ llmCalls <= 5 /\ toolRuns <= llmCalls
  /\ (pc = "invoke" => llmCalls = iterations /\ toolRuns = iterations - 1)
  /\ (loopEnd = "cap" <=> toolRuns = 5)
  /\ (loopEnd = "cap" => iterations = 5 /\ llmCalls = 5)
  /\ (loopEnd # "none" => pc = "idle" /\ result.st = "returned")

C1_Witness == loopEnd = "cap" /\ toolRuns = 5 /\ result.st = "returned"

\* C2: ask never lets an error out: whatever fails (the LLM while
\* classifying, while detecting an analytical question or while generating,
\* or a tool), a finished ask call has returned an answer together with the
\* sources its search had gathered.
C2_AskNeverThrows ==
  /\ result.st # "threw"
  /\ (pc = "idle" /\ asks > 0 =>
        result.st = "returned" /\ result.sources = searchResults)

C2_Witness ==
  result.st = "returned" /\ lastReply.failed /\ result.sources # <<>>

\* C3 (as claimed): when the LLM invocation fails during generation, on the
\* tool path as on the RAG path, the answer returned is the text
\* _generateAnswer builds from the retrieved sources, never an empty string.
C3_FallbackOnLlmFailure ==
  result.st = "returned" /\ lastReply.failed =>
    /\ result.answer = _generateAnswer(question, searchResults)
    /\ result.answer # <<>>

\* C4 (as claimed): every tool execution of the loop is followed by a
\* further LLM invocation whose prompt re-states the question and holds the
\* tool's result: while the loop runs the prompt of the pending invocation
\* is that follow-up prompt, and the loop never ends on a tool execution
\* whose result reached no prompt given to the model.
C4_ToolResultFedBack ==
  /\ (pc = "invoke" /\ toolRuns > 0 =>
        /\ fullPrompt.question = question
        /\ fullPrompt.toolResult = lastExec.result)
  /\ ~unfed

\* C5 (as claimed): every non-empty text that preceded a directive is
\* contained in the answer the loop finally returns.
C5_TextBeforeDirectiveKept ==
  result.st = "returned" =>
    \A t \in preTexts : Includes(result.answer, t)

\* C6: a response of the tool loop without directive is the final answer
\* (trimmed) and ends the loop at once: no tool was executed for it (every
\* earlier invocation had one, this one none), and the ask call has
\* returned, so that no LLM invocation or tool execution follows in it.
C6_ToolFreeResponseEnds ==
  llmCalls > 0 /\ ~lastReply.failed /\ lastReply.tool = "" =>
    /\ loopEnd = "final"
    /\ pc = "idle" /\ result.st = "returned"
    /\ result.answer = Trim(lastReply.text)
    /\ toolRuns = llmCalls - 1

C6_Witness ==
  loopEnd = "final" /\ toolRuns > 0 /\ ~lastReply.failed /\ lastReply.tool = ""

\* C7: a directive whose <input> body is not valid JSON is no error: the
\* tool named is executed in that iteration with input undefined, the
\* follow-up prompt holds its result, and the loop goes on (to the next
\* invocation, or to its end at the cap of 5 iterations), never leaving
\* through the exception exit.
C7_InvalidJsonIsNoInput ==
  llmCalls > 0 /\ ~lastReply.failed /\ lastReply.tool # ""
    /\ lastReply.input.kind = "invalid" =>
    /\ lastExec.ran /\ lastExec.tool = lastReply.tool
    /\ lastExec.input = Undefined
    /\ fullPrompt = FollowUpPrompt(question, lastExec.result)
    /\ loopEnd \in {"none", "cap"}
    /\ (loopEnd = "none" => pc = "invoke")
    /\ (loopEnd = "cap" => iterations = 5)

C7_Witness ==
  /\ lastReply.input.kind = "invalid" /\ lastReply.tool = "get_user"
  /\ lastExec.ran /\ lastExec.input = Undefined
  /\ pc = "invoke" /\ iterations = 2

(***************************************************************************)
(* Properties of _executeTool (checked under SpecTool).                     *)
(***************************************************************************)
\* C8: _executeTool never throws: for each of the 12 tools and for an
\* unknown name, whatever the input, it returns a text; an exception raised
\* inside comes back as an "Error executing tool: ..." text.
C8_ExecuteToolNeverThrows ==
  lastExec.ran => ~lastExec.threw /\ lastExec.result.kind # "none"

C8_Witness ==
  lastExec.ran /\ lastExec.result.kind = "Error executing tool: "

\* The required fields of a tool, as the claim lists them.
MissingRequired(e) ==
  LET no(f) == ~Truthy(Fld(e.input, f)) IN
  CASE e.tool \in {"get_user", "list_tickets"} -> no("user_id")
    [] e.tool = "create_ticket" ->
         no("user_id") \/ no("title") \/ no("description")
    [] e.tool = "update_ticket" -> no("ticket_id")
    [] e.tool = "add_message" -> no("ticket_id") \/ no("text")
    [] e.tool = "search_tickets" -> no("query") /\ no("user_id")
    [] e.tool \in {"get_task", "update_task"} -> no("task_id")
    [] e.tool = "create_task" ->
         no("title") \/ no("description") \/ no("assignee")
    [] OTHER -> FALSE

\* The id a tool refers to is not in the store it was called on.
UnknownId(e) ==
  CASE e.tool \in {"get_user", "create_ticket"} ->
         FindIdx(e.crmBefore.users, Fld(e.input, "user_id")) = 0
    [] e.tool \in {"update_ticket", "add_message"} ->
         FindIdx(e.crmBefore.tickets, Fld(e.input, "ticket_id")) = 0
    [] e.tool \in {"get_task", "update_task"} ->
         FindIdx(e.tasksBefore.tasks, Fld(e.input, "task_id")) = 0
    [] OTHER -> FALSE

\* C9: a tool called with a required field missing, or with an id that is
\* not in the store, returns an "Error: ..." text and leaves the CRM and
\* Tasks stores exactly as they were.
C9_BadInputIsErrorText ==
  lastExec.ran /\ (MissingRequired(lastExec) \/ UnknownId(lastExec)) =>
    /\ ~lastExec.threw
    /\ lastExec.result.kind = "Error: "
    /\ lastExec.crmAfter = lastExec.crmBefore
    /\ lastExec.tasksAfter = lastExec.tasksBefore
    /\ crm = lastExec.crmBefore /\ tasks = lastExec.tasksBefore

C9_Witness ==
  /\ lastExec.ran /\ lastExec.tool = "create_ticket"
  /\ ~MissingRequired(lastExec) /\ UnknownId(lastExec)
  /\ lastExec.result.kind = "Error: "
  /\ Len(crm.tickets) = 2

(***************************************************************************)
(* The tools reported as used (checked under SpecOverlap).                  *)
(***************************************************************************)
\* C10 (as claimed): the toolsUsed list ask returns holds exactly the
\* distinct tool names whose directives were matched during that call, each
\* once, in the order of first use; when none was matched toolsUsed is
\* undefined and usedTools is false.
C10_ToolsUsedPerAnswer ==
  result.st = "returned" =>
    /\ result.toolsUsed.names = matched
    /\ result.toolsUsed.def = (matched # <<>>)
    /\ result.usedTools = (matched # <<>>)

(***************************************************************************)
(* Overlapping ask calls (checked under SpecOverlap).                       *)
(***************************************************************************)
\* C11 (as claimed): at most one ask call is in flight on a CodeAssistant
\* at any time: while one call is between its first statement and its
\* return, no other call has started, so the tools and the messages of one
\* question are never interleaved with those of another.
C11_OneAskInFlight == ~(pc # "idle" /\ other.pc # "idle")

C12_NoCrmUpdateLost ==
  LET t == persist.file.tickets
      Holds(id, bot, text) ==
        \E i \in 1..Len(t) :
          /\ t[i].id = id
          /\ \E j \in 1..Len(t[i].messages) :
               /\ (t[i].messages[j].sender = "support_bot") = bot
               /\ t[i].messages[j].text = text
  IN /\ \A id \in persist.tickets : FindIdx(t, id) # 0
     /\ \A m \in persist.replies : Holds(m[1], TRUE, m[2])
     /\ \A m \in persist.msgs : Holds(m[1], FALSE, m[2])

(***************************************************************************)
(* The conversation (checked under SpecConv).                               *)
(***************************************************************************)
\* C15: after any sequence of addUserMessage, addAssistantMessage and clear
\* calls the conversation holds at most 50 messages, and they are the most
\* recently added ones (since it was created or cleared), in the order of
\* their addition.
C15_ConversationBounded ==
  /\ Len(conversation) <= 50
  /\ Len(conversation) = IF Len(added) < 50 THEN Len(added) ELSE 50
  /\ \A i \in 1..Len(conversation) :
       conversation[i] = added[Len(added) - Len(conversation) + i]

C15_Witness ==
  /\ convCalls > 1
  /\ Len(added) > 51
  /\ Len(conversation) = 50
  /\ conversation[50] = added[Len(added)]
  /\ conversation[1] = added[Len(added) - 49]

(***************************************************************************)
(* The indexer (checked under SpecIndex).                                   *)
(***************************************************************************)
\* C16 (as claimed): indexing has no partial-result visibility: after an
\* indexProject call that failed (no file admitted, or a failure while
\* saving) the index on disk and the index in memory are still the
\* complete index of the last successful run, and stats.totalChunks is the
\* number of chunks held.
C16_FailedRunKeepsIndex ==
  indexer.pc = "idle" /\ indexer.outcome = "threw" /\ indexer.good.def =>
    /\ indexer.chunks = indexer.good.chunks
    /\ indexer.stats = indexer.good.stats
    /\ indexer.diskChunks = indexer.good.chunks
    /\ indexer.diskStats = indexer.good.stats
    /\ indexer.stats.totalChunks = Len(indexer.chunks)

\* C17 (as claimed): chunk creation terminates for every configuration: on
\* each step of the loop of _createChunks the window start strictly
\* advances (a chunkOverlap that is not below chunkSize is rejected or
\* clamped).
C17_WindowAdvances ==
  indexer.pc = "chunking" /\ indexer.steps > 0 => indexer.i > indexer.from

\* C18 (as claimed): one file of 1000 words with chunkSize 400 and
\* chunkOverlap 100 yields exactly 3 chunks, the windows at the word
\* offsets 0, 300 and 600, each with totalChunks 3.
C18_ThreeChunksOfThousandWords ==
  /\ indexer.config = DefaultConfig
  /\ indexer.files = BigTree
  /\ indexer.pc \in {"save", "saveStats"}
  => /\ Len(indexer.chunks) = 3
     /\ \A k \in 1..Len(indexer.chunks) :
          /\ indexer.chunks[k].content[1] = 300 * (k - 1) + 1
          /\ indexer.chunks[k].totalChunks = 3

\* The words of the chunks of a file, in chunkIndex order, each chunk
\* after the first without the words it shares with the one before it.
RECURSIVE Rebuilt(_, _)
Rebuilt(fileChunks, overlap) ==
  IF Len(fileChunks) = 0 THEN <<>>
  ELSE LET last == fileChunks[Len(fileChunks)].content
       IN Rebuilt(SubSeq(fileChunks, 1, Len(fileChunks) - 1), overlap)
          \o (IF Len(fileChunks) = 1 THEN last
              ELSE SubSeq(last, overlap + 1, Len(last)))

\* C19: for every admitted file and every configuration with
\* 0 <= chunkOverlap < chunkSize, the chunks of the file in chunkIndex
\* order give back its words when the overlapping words are removed, their
\* chunkIndex values are 0..totalChunks-1 without gaps, and totalChunks is
\* the number of chunks of the file.
C19_ChunksRebuildFile ==
  /\ indexer.pc \in {"save", "saveStats"}
  /\ indexer.config.chunkOverlap < indexer.config.chunkSize
  => \A f \in 1..Len(indexer.files) :
       LET file == indexer.files[f]
           of(chunk) == chunk.source = file.path
           fileChunks == SelectSeq(indexer.chunks, of)
       IN /\ \A k \in 1..Len(fileChunks) :
               /\ fileChunks[k].chunkIndex = k - 1
               /\ fileChunks[k].totalChunks = Len(fileChunks)
          /\ Rebuilt(fileChunks, indexer.config.chunkOverlap) = file.words

C19_Witness ==
  /\ indexer.pc = "save"
  /\ indexer.config = [chunkSize |-> 3, chunkOverlap |-> 2]
  /\ Len(indexer.files) = 2
  /\ Len(indexer.files[1].words) = 4
  /\ Len(indexer.chunks) > 4

\* C20: indexing is idempotent: indexProject run again on an unchanged tree
\* replaces the previous result and yields the same number of chunks, with
\* the same totalChunks and the same content, chunk for chunk.
C20_ReindexIsIdempotent ==
  indexer.pc = "idle" /\ indexer.outcome = "ok" /\ indexer.repeat.def =>
    /\ Len(indexer.chunks) = Len(indexer.repeat.chunks)
    /\ \A k \in 1..Len(indexer.chunks) :
         /\ k <= Len(indexer.repeat.chunks)
         /\ indexer.chunks[k].content = indexer.repeat.chunks[k].content
         /\ indexer.chunks[k].totalChunks
              = indexer.repeat.chunks[k].totalChunks
    /\ indexer.stats.totalChunks = indexer.repeat.stats.totalChunks
    /\ indexer.diskChunks = indexer.chunks

C20_Witness ==
  /\ indexer.pc = "idle" /\ indexer.outcome = "ok" /\ indexer.repeat.def
  /\ Len(indexer.files) = 2
  /\ Len(indexer.chunks) > 2

(***************************************************************************)
(* The retriever (checked under SpecSearch).                                *)
(***************************************************************************)
\* C22: when embeddings are present and a client is set, search returns at
\* most maxResults results, each of them a chunk of the top 2 x maxResults
\* keyword candidates (the semantic candidates are the same list).
C22_HybridWithinShortlist ==
  rag.called /\ rag.semantic =>
    LET short == KeywordResults(chunks, rag.query, rag.maxResults)
    IN /\ Len(rag.results) <= rag.maxResults
       /\ Len(short) <= 2 * rag.maxResults
       /\ \A k \in 1..Len(rag.results) :
            \E j \in 1..Len(short) :
              /\ short[j].chunk.content = rag.results[k].content
              /\ short[j].chunk.source = rag.results[k].source

C22_Witness ==
  /\ rag.called /\ rag.semantic
  /\ Len(chunks) = 6 /\ rag.maxResults = 1
  /\ Len(rag.results) = 1
  /\ rag.results[1].source # chunks[1].source

\* C23 (as claimed): adding one exact occurrence of a query token to the
\* content of a chunk never decreases the score _calculateSimilarity gives
\* the chunk, also when the token matched only by a shared prefix before.
C23_ExactOccurrenceMonotone ==
  rag.called =>
    LET queryWords == _tokenize(rag.query)
    IN \A k \in 1..Len(chunks) : \A t \in 1..Len(queryWords) :
         ~FracLess(_calculateSimilarity(
                     queryWords,
                     _tokenize(chunks[k].content \o <<queryWords[t]>>)),
                   _calculateSimilarity(queryWords,
                                        _tokenize(chunks[k].content)))

\* C24 (as claimed): for a query with a token, a chunk with no lexical
\* overlap scores exactly min(|C| / 1000, 0.1), and no chunk with a real
\* match has that same score.
C24_FloorNeverAMatchScore ==
  rag.called /\ Len(_tokenize(rag.query)) >= 1 =>
    LET queryWords == _tokenize(rag.query)
        sim(k) == _calculateSimilarity(queryWords,
                                       _tokenize(chunks[k].content))
        score(k) == KeywordScore(queryWords, chunks[k])
        length(k) == Len(_tokenize(chunks[k].content))
    IN \A k \in 1..Len(chunks) :
         sim(k) = Frac(0, 1) =>
           /\ score(k) = FracMin(Frac(length(k), 1000), Frac(1, 10))
           /\ \A j \in 1..Len(chunks) :
                sim(j) # Frac(0, 1) => score(j) # score(k)

C21_ProviderFailureLeavesNoEmbedding ==
  indexer.pc = "idle" /\ indexer.outcome = "ok"
    /\ indexer.provider = "failed" =>
      \A k \in 1..Len(indexer.diskChunks) :
        "embedding" \notin DOMAIN indexer.diskChunks[k]

C26_ToolFrame ==
  lastExec.ran =>
    /\ chunks = <<Chunk(1)>>
    /\ conversation = <<>>
    /\ lastExec.tool \in {"git_branch", "git_status", "get_user",
                          "list_tickets", "search_tickets", "list_tasks",
                          "get_task"} =>
         /\ lastExec.crmAfter = lastExec.crmBefore
         /\ lastExec.tasksAfter = lastExec.tasksBefore
    /\ lastExec.crmAfter # lastExec.crmBefore =>
         lastExec.tool \in {"create_ticket", "update_ticket", "add_message"}
    /\ lastExec.tasksAfter # lastExec.tasksBefore =>
         lastExec.tool \in {"create_task", "update_task"}
    /\ crm = lastExec.crmAfter /\ tasks = lastExec.tasksAfter

C26_Witness ==
  /\ lastExec.ran /\ lastExec.tool = "get_user"
  /\ lastExec.result.kind = "json"
  /\ Len(crm.tickets) = 2 /\ Len(tasks.tasks) = 2

(***************************************************************************)
(* The prompt after a tool call (checked under Spec).                       *)
(***************************************************************************)
\* C27 (as claimed): from the second iteration of the tool loop on, the
\* prompt given to the LLM carries the retrieved context of the question
\* together with the tool result.
C27_FollowUpKeepsContext ==
  pc = "invoke" /\ iterations >= 2 =>
    /\ fullPrompt.toolResult # NoResult
    /\ fullPrompt.context = searchResults

(***************************************************************************)
(* The messages of an ask (checked under SpecOverlap).                      *)
(***************************************************************************)
\* C28 (as claimed): every ask appends two messages, the user question
\* before any LLM invocation or tool execution of the call and the
\* assistant answer, with the sources ask returns, after the last one; so
\* the history alternates user, assistant.
C28_HistoryAlternates ==
  /\ pc # "idle" =>
       \E i \in 1..Len(added) : added[i] = UserMessage(question)
  /\ llmCalls > 0 \/ toolRuns > 0 =>
       \E i \in 1..Len(added) : added[i] = UserMessage(question)
  /\ result.st = "returned" =>
       \E i, j \in 1..Len(added) :
         /\ i < j
         /\ added[i] = UserMessage(question)
         /\ added[j] = AssistantMessage(result.answer, result.sources)
  /\ \A i \in 1..Len(conversation) :
       conversation[i].role = IF i % 2 = 1 THEN "user" ELSE "assistant"

(***************************************************************************)
(* The ids of tickets and tasks (checked under SpecCreate).                 *)
(***************************************************************************)
\* C30 (as claimed): after any sequence of create_ticket and create_task
\* executions, at any clock values, the ticket ids of the CRM store are
\* pairwise distinct and so are the task ids of the Tasks store.
C30_IdsDistinct ==
  /\ \A i, j \in 1..Len(crm.tickets) :
       i # j => crm.tickets[i].id # crm.tickets[j].id
  /\ \A i, j \in 1..Len(tasks.tasks) :
       i # j => tasks.tasks[i].id # tasks.tasks[j].id
====
